---- MODULE Spec2Model ----
(***************************************************************************)
(* Model of ESCAutomatedAlerts and ESCContinuousTestingOrchestrator        *)
(* (src/continuous-testing/esc-continuous-testing-orchestrator.js) and of  *)
(* ESCAgentCoordinator (src/unnamed/part_002).                             *)
(*                                                                         *)
(* Time is counted in minutes (60000 ms): every duration of the source is  *)
(* a whole number of minutes.  An async method is modelled as a process    *)
(* whose steps are the blocks of code between two suspensions.  The        *)
(* suspensions kept are the await on shouldSuppressAlert in triggerAlert,  *)
(* every await on channel.sendNotification, and the await on               *)
(* sendResolutionNotification in resolveAlert; an await on a method whose  *)
(* body has already run to completion is folded into the block after it.   *)
(***************************************************************************)
EXTENDS Integers, Sequences, FiniteSets, TLC

\* ---------------------------------------------------------------- bounds
MaxAlerts == 2
MaxTime == 1
MaxDeadline == 6
NumPasses == 2
NumResolvers == 1
NumOverlapResolvers == 2
MaxInFlight == 2
MaxFailures == 1
MaxEscAlerts == 1
EscHorizon == 60
KeyHorizon == 12
AdvHorizon == 15
MaxMessages == 4
MaxTasks == 2
MaxRegistrations == 3
MaxCoordTime == 2
HeartbeatThreshold == 1
MaxCycles == 3
MaxMonitorRestarts == 2

\* ------------------------------------------------------- optional values
None == << >>
Some(x) == << x >>
IsSome(o) == Len(o) > 0
Val(o) == o[1]

\* ------------------------------------------------------ configured rules
\* A rule with absent fields: immediate, escalate, escalationTime and
\* suppressionTime are undefined (falsy, and "undefined > 0" is false).
EmptyRule ==
    [immediate |-> FALSE, channels |-> << >>, escalate |-> FALSE,
     escalationTime |-> 0, suppressionTime |-> 0]

initializeAlertRules ==
    [critical |->
       [variableCountExceeded |->
          [immediate |-> TRUE, channels |-> <<"email", "console", "agent_message">>,
           escalate |-> TRUE, escalationTime |-> 5, suppressionTime |-> 0],
        securityViolation |->
          [immediate |-> TRUE,
           channels |-> <<"email", "console", "agent_message", "security_team">>,
           escalate |-> TRUE, escalationTime |-> 3, suppressionTime |-> 0],
        invalidUserCriteria |->
          [immediate |-> TRUE, channels |-> <<"email", "console", "agent_message">>,
           escalate |-> TRUE, escalationTime |-> 10, suppressionTime |-> 0]],
     high |->
       [performanceConcern |->
          [immediate |-> FALSE, channels |-> <<"console", "agent_message">>,
           escalate |-> TRUE, escalationTime |-> 15, suppressionTime |-> 5],
        itemDesignerLimitation |->
          [immediate |-> FALSE, channels |-> <<"console", "agent_message">>,
           escalate |-> FALSE, escalationTime |-> 0, suppressionTime |-> 10],
        integrationError |->
          [immediate |-> TRUE, channels |-> <<"email", "console", "agent_message">>,
           escalate |-> TRUE, escalationTime |-> 10, suppressionTime |-> 2]],
     medium |->
       [complianceScoreLow |->
          [immediate |-> FALSE, channels |-> <<"console", "agent_message">>,
           escalate |-> FALSE, escalationTime |-> 0, suppressionTime |-> 30],
        tooManyVariables |->
          [immediate |-> FALSE, channels |-> <<"console">>,
           escalate |-> FALSE, escalationTime |-> 0, suppressionTime |-> 60]],
     low |->
       [bestPracticeViolation |->
          [immediate |-> FALSE, channels |-> <<"console">>,
           escalate |-> FALSE, escalationTime |-> 0, suppressionTime |-> 120]]]

initializeEscalationPolicies ==
    [level1 |-> [channels |-> <<"email", "console">>, timeoutMinutes |-> 5],
     level2 |-> [channels |-> <<"email", "phone", "slack">>, timeoutMinutes |-> 10],
     level3 |-> [channels |-> <<"email", "phone", "slack", "pager">>, timeoutMinutes |-> 15],
     level4 |-> [channels |-> <<"phone", "pager", "emergency_sms">>, timeoutMinutes |-> 30]]

\* The property name `level${n}` built by escalateAlert.
LevelKey(n) ==
    CASE n = 0 -> "level0" [] n = 1 -> "level1" [] n = 2 -> "level2"
      [] n = 3 -> "level3" [] n = 4 -> "level4" [] OTHER -> "levelN"

HasPolicy(n) == LevelKey(n) \in DOMAIN initializeEscalationPolicies
Policy(n) == initializeEscalationPolicies[LevelKey(n)]

getAlertRules(violation) ==
    LET rules == initializeAlertRules
        severityRules == IF violation.severity \in DOMAIN rules
                         THEN rules[violation.severity] ELSE << >>
    IN  IF violation.type \in DOMAIN severityRules
        THEN severityRules[violation.type] ELSE EmptyRule

\* ---------------------------------------------------------------- inputs
Violations ==
    { [type |-> "variableCountExceeded", severity |-> "critical"],
      [type |-> "system_failure", severity |-> "critical"],
      [type |-> "integrationError", severity |-> "high"],
      [type |-> "integrationError", severity |-> "critical"] }

EscViolations == { [type |-> "variableCountExceeded", severity |-> "critical"] }

\* context.agentId; "" stands for a context without agentId.
ContextAgents == { "agent_1" }

\* Channels whose send may reject: the ones that leave the process.
FailingChannels == { "email" }

\* Channels registered by initializeAlertChannels when SLACK_WEBHOOK_URL is
\* not set.
BaseChannels == { "console", "email", "agent_message", "security_team" }

\* ----------------------------------------------------------------- state
VARIABLES
    now,              \* wall clock, minutes
    isActive,         \* ESCAutomatedAlerts.isActive
    alertChannels,    \* names registered in this.alertChannels
    alertObjs,        \* every alert object ever built, indexed by its id
    alertHistory,     \* this.alertHistory, a sequence of alert ids
    activeAlerts,     \* this.activeAlerts, ids in Map insertion order
    suppressionRules, \* this.suppressionRules, key -> [alertId, until]
    trig,             \* position of each triggerAlert call, by alert id
    pass,             \* position of each processEscalations pass
    res,              \* position of each resolveAlert call
    channelLog,       \* per alert id, the completed channel.sendNotification calls
    resolvedOk,       \* ids for which resolveAlert has returned true
    noPolicyWarned,   \* ids for which escalateAlert has warned "No escalation policy"
    failures,         \* number of failed sends so far
    validation,       \* position of each validateSolution call of the orchestrator
    messageQueue,     \* ESCAgentCoordinator.messageQueue, a Map agentId -> messages
    activeAgents,     \* ESCAgentCoordinator.activeAgents, a Map agentId -> agent
    registrations,    \* the agentInfo of every registerAgent call, in call order
    delivered,        \* the deliverMessage / deliverMessageBatch deliveries, in order
    proc,             \* position of the processMessageQueue pass
    msgCount,         \* number of message objects made so far
    found,            \* the last findBestAgentForTask call: its task and its result
    plans,            \* every correction task made, with the agent found for it
    systemFlags,      \* monitoringActive, isMonitoring and isActive of the validator,
                      \* the monitor and the coordinator
    systemHealth,     \* ESCContinuousTestingOrchestrator.systemHealth, a Map
    restartLog,       \* the start calls recoverSystem has made, in order
    cycle,            \* position of the health cycle of startHealthMonitoring
    isRunning,        \* ESCContinuousTestingOrchestrator.isRunning
    statistics,       \* ESCContinuousTestingOrchestrator.statistics
    boot              \* position of the start() or shutdown() call in flight,
                      \* and how the last start() and shutdown() ended

\* The state of the agent coordinator.
coordVars == << messageQueue, activeAgents, registrations, delivered, proc,
                msgCount, found, plans >>

\* The state of the health supervision of the orchestrator.
orchVars == << systemFlags, systemHealth, restartLog, cycle, isRunning,
              statistics, boot >>

\* The state of start() and shutdown().
lifeVars == << isRunning, statistics, boot >>

\* The state of the alert system and of the orchestrator.
alertVars == << now, isActive, alertChannels, alertObjs, alertHistory,
                activeAlerts, suppressionRules, trig, pass, res, channelLog,
                resolvedOk, noPolicyWarned, failures, validation, systemFlags,
                systemHealth, restartLog, cycle, isRunning, statistics, boot >>

vars == << now, isActive, alertChannels, alertObjs, alertHistory, activeAlerts,
           suppressionRules, trig, pass, res, channelLog, resolvedOk,
           noPolicyWarned, failures, validation, messageQueue, activeAgents,
           registrations, delivered, proc, msgCount, found, plans,
           systemFlags, systemHealth, restartLog, cycle, isRunning, statistics,
           boot >>

Passes == 1 .. NumPasses
Resolvers == 1 .. NumResolvers
\* resolveAlert calls that may be in flight together.
OverlapResolvers == 1 .. NumOverlapResolvers
Ids == 1 .. Len(alertObjs)

IdlePass ==
    [pc |-> "idle", start |-> 0, visited |-> {}, cur |-> 0, nextLevel |-> 0,
     idx |-> 0, resolvedAtStart |-> {}]
IdleRes == [pc |-> "idle", id |-> 0, chans |-> << >>]
IdleProc == [pc |-> "idle", pos |-> 0, rest |-> << >>, regular |-> << >>]
IdleCycle == [pc |-> "idle", n |-> 0, pos |-> 0, alertId |-> 0]
IdleBoot ==
    [pc |-> "idle", pos |-> 0, started |-> << >>, alertId |-> 0,
     startResult |-> "none", down |-> "idle", downAlertId |-> 0,
     shutdownResult |-> "none"]

Init ==
    /\ now = 0
    /\ isActive = FALSE
    /\ alertChannels = {}
    /\ alertObjs = << >>
    /\ alertHistory = << >>
    /\ activeAlerts = << >>
    /\ suppressionRules = << >>
    /\ trig = << >>
    /\ pass = [p \in Passes |-> IdlePass]
    /\ res = [r \in OverlapResolvers |-> IdleRes]
    /\ channelLog = << >>
    /\ resolvedOk = {}
    /\ noPolicyWarned = {}
    /\ failures = 0
    /\ validation = << >>
    /\ messageQueue = << >>
    /\ activeAgents = << >>
    /\ registrations = << >>
    /\ delivered = << >>
    /\ proc = IdleProc
    /\ msgCount = 0
    /\ found = None
    /\ plans = << >>
    /\ systemFlags = [validator |-> FALSE, monitor |-> FALSE, coordinator |-> FALSE]
    /\ systemHealth = << >>
    /\ restartLog = << >>
    /\ cycle = IdleCycle
    /\ isRunning = FALSE
    /\ statistics = [violationsDetected |-> 0, violationsResolved |-> 0]
    /\ boot = IdleBoot

\* --------------------------------------------------------------- helpers
\* Number of handlers (triggerAlert, processEscalations, resolveAlert calls)
\* that have started, have not returned and are not waiting on a send that
\* never completes, and of validateSolution calls whose triggerAlert has
\* returned.
InFlight ==
    Cardinality({ id \in Ids : trig[id].pc \notin { "done", "hung" } })
    + Cardinality({ p \in Passes : pass[p].pc \notin { "idle", "hung" } })
    + Cardinality({ r \in OverlapResolvers : res[r].pc # "idle" })
    + Cardinality({ k \in 1 .. Len(validation) :
                      /\ validation[k].pc = "alerting"
                      /\ trig[validation[k].alertId].pc = "done" })

\* Least index i >= from of chs with a registered channel, 0 when none:
\* the loop "for (channelName of chs) { channel = alertChannels.get(..);
\* if (channel) ..." up to its next send.
NextChannel(chs, from) ==
    LET idxs == { i \in from .. Len(chs) : chs[i] \in alertChannels }
    IN  IF idxs = {} THEN 0 ELSE CHOOSE i \in idxs : \A j \in idxs : i <= j

\* Outcomes of a send on channel ch: it resolves, or it rejects.
Outcomes(ch) ==
    IF failures < MaxFailures /\ ch \in FailingChannels
    THEN { "sent", "failed" } ELSE { "sent" }

LogEntry(kind, level, channel, outcome) ==
    [kind |-> kind, level |-> level, channel |-> channel, at |-> now,
     status |-> outcome]

suppressionKey(alert) == alert.type \o "_" \o alert.agentId

shouldSuppressAlert(alert) ==
    LET key == suppressionKey(alert)
    IN  /\ key \in DOMAIN suppressionRules
        /\ now < suppressionRules[key].until

\* ------------------------------------------------------------ startAlertSystem
startAlertSystem ==
    /\ ~isActive
    /\ isActive' = TRUE
    /\ alertChannels' = BaseChannels
    /\ UNCHANGED << orchVars, coordVars, validation, now, alertObjs, alertHistory, activeAlerts, suppressionRules,
                    trig, pass, res, channelLog, resolvedOk, failures,
                    noPolicyWarned >>

\* ---------------------------------------------------------------- triggerAlert
\* scheduleEscalation, then setSuppression, as applied to the alert object.
scheduleEscalation(alert, rules) ==
    IF rules.escalate
    THEN [alert EXCEPT !.escalationScheduled = Some(now + rules.escalationTime),
                       !.escalationLevel = 1]
    ELSE alert

setSuppression(alert, rules) ==
    IF rules.suppressionTime > 0
    THEN [alert EXCEPT !.suppressedUntil = Some(now + rules.suppressionTime)]
    ELSE alert

setSuppressionRule(id, alert, rules) ==
    IF rules.suppressionTime > 0
    THEN (suppressionKey(alert) :> [alertId |-> id, until |-> now + rules.suppressionTime])
         @@ suppressionRules
    ELSE suppressionRules

\* Lines 1242-1253: the end of triggerAlert, after the notifications.
TriggerTail(id, alert) ==
    LET rules == getAlertRules(alert.violation)
    IN  /\ alertObjs' = [alertObjs EXCEPT
                           ![id] = setSuppression(scheduleEscalation(alert, rules), rules)]
        /\ suppressionRules' = setSuppressionRule(id, alert, rules)
        /\ trig' = [trig EXCEPT ![id] = [pc |-> "done", suppressed |-> FALSE, idx |-> 0]]

\* Lines 1204-1223: the alert object is built and shouldSuppressAlert runs.
TriggerStart(violation, agent) ==
    /\ isActive
    /\ Len(alertObjs) < MaxAlerts
    /\ InFlight < MaxInFlight
    /\ LET alert == [timestamp |-> now,
                     type |-> violation.type,
                     severity |-> violation.severity,
                     agentId |-> IF agent = "" THEN "unknown" ELSE agent,
                     violation |-> violation,
                     status |-> "active",
                     escalationLevel |-> 0,
                     notificationsSent |-> << >>,
                     suppressedUntil |-> None,
                     escalationScheduled |-> None,
                     escalationHistory |-> << >>,
                     resolvedAt |-> None]
       IN  /\ alertObjs' = Append(alertObjs, alert)
           /\ trig' = Append(trig, [pc |-> "check",
                                    suppressed |-> shouldSuppressAlert(alert),
                                    idx |-> 0])
           /\ channelLog' = Append(channelLog, << >>)
    /\ UNCHANGED << coordVars, now, isActive, alertChannels, alertHistory, activeAlerts,
                    suppressionRules, pass, res, resolvedOk, failures,
                    noPolicyWarned >>

\* A suppressed alert is kept in alertHistory.
SuppressedRecorded(id) ==
    /\ trig' = [trig EXCEPT ![id].pc = "done"]
    /\ alertHistory' = Append(alertHistory, id)
    /\ UNCHANGED << alertObjs, activeAlerts, suppressionRules >>

\* Lines 1223-1226: shouldSuppressAlert answered true; triggerAlert logs
\* "Alert suppressed" and returns the alert it built.
SuppressedReturn(id) ==
    /\ trig' = [trig EXCEPT ![id].pc = "done"]
    /\ UNCHANGED << alertObjs, alertHistory, activeAlerts, suppressionRules >>

\* Lines 1223-1240: return when suppressed; otherwise store the alert and
\* start the notifications.
TriggerStore(id) ==
    /\ id \in Ids
    /\ trig[id].pc = "check"
    /\ IF trig[id].suppressed
       THEN SuppressedReturn(id)
       ELSE LET alert == alertObjs[id]
                rules == getAlertRules(alert.violation)
                first == IF rules.immediate THEN NextChannel(rules.channels, 1) ELSE 0
            IN  /\ activeAlerts' = Append(activeAlerts, id)
                /\ alertHistory' = Append(alertHistory, id)
                /\ IF first # 0
                   THEN /\ trig' = [trig EXCEPT ![id].pc = "send", ![id].idx = first]
                        /\ UNCHANGED << alertObjs, suppressionRules >>
                   ELSE TriggerTail(id, alert)
    /\ UNCHANGED << orchVars, coordVars, validation, now, isActive, alertChannels, pass, res, channelLog,
                    resolvedOk, failures,
                    noPolicyWarned >>

\* A rejected send ends the loop over the channels.
NextAfterAbort(chs, idx, outcome) ==
    IF outcome = "failed" THEN 0 ELSE NextChannel(chs, idx + 1)

\* A rejected send is tried again on the same channel.
NextAfterRetry(chs, idx, outcome) ==
    IF outcome = "failed" THEN idx ELSE NextChannel(chs, idx + 1)

\* Lines 1262-1286: after the try/catch around a send, whatever its outcome,
\* the for loop of sendImmediateNotifications goes on to the next channel.
NextAfter(chs, idx, outcome) == NextChannel(chs, idx + 1)

\* Lines 1262-1287: one channel.sendNotification of sendImmediateNotifications
\* completes; its outcome is pushed on alert.notificationsSent.
TriggerSendDone(id, outcome) ==
    /\ id \in Ids
    /\ trig[id].pc = "send"
    /\ outcome \in Outcomes(getAlertRules(alertObjs[id].violation).channels[trig[id].idx])
    /\ LET rules == getAlertRules(alertObjs[id].violation)
           ch == rules.channels[trig[id].idx]
           alert == [alertObjs[id] EXCEPT
                       !.notificationsSent =
                           Append(@, [channel |-> ch, timestamp |-> now, status |-> outcome])]
           next == NextAfter(rules.channels, trig[id].idx, outcome)
       IN  /\ channelLog' = [channelLog EXCEPT ![id] =
                                Append(@, LogEntry("alert", 0, ch, outcome))]
           /\ failures' = IF outcome = "failed" THEN failures + 1 ELSE failures
           /\ IF next # 0
              THEN /\ alertObjs' = [alertObjs EXCEPT ![id] = alert]
                   /\ trig' = [trig EXCEPT ![id].idx = next]
                   /\ UNCHANGED suppressionRules
              ELSE TriggerTail(id, alert)
    /\ UNCHANGED << orchVars, coordVars, validation, now, isActive, alertChannels, alertHistory, activeAlerts,
                    pass, res, resolvedOk,
                    noPolicyWarned >>

\* ------------------------------------------------- processEscalations
\* processEscalations escalates every active scheduled alert, due or not.
DueUntimed(alert, start) ==
    /\ alert.status = "active"
    /\ IsSome(alert.escalationScheduled)

\* The test of processEscalations on one alert; start is the "now" the pass
\* read when it began.
Due(alert, start) ==
    /\ alert.status = "active"
    /\ IsSome(alert.escalationScheduled)
    /\ start >= Val(alert.escalationScheduled)

\* Lines 1374-1384: the update at the end of escalateAlert.
Promote(alert, nextLevel) ==
    [alert EXCEPT
       !.escalationLevel = nextLevel,
       !.escalationScheduled = Some(now + Policy(nextLevel).timeoutMinutes),
       !.escalationHistory = Append(@, [level |-> nextLevel, timestamp |-> now])]

\* escalateAlert unschedules an alert that has no next policy.
NoPolicyUnschedule(alert) == [alert EXCEPT !.escalationScheduled = None]

\* Lines 1364-1367: escalateAlert finds no policy for the next level, warns
\* and returns; the alert object is left as it is.
NoPolicyReturn(alert) == alert

\* Entries of activeAlerts the Map iterator of a pass has not reached yet.
Remaining(visited) == SelectSeq(activeAlerts, LAMBDA id : id \notin visited)

\* The loop of processEscalations from its current position up to the next
\* channel send: alerts that are not due are skipped, escalateAlert returns
\* at once when the next level has no policy, and promotes at once when no
\* channel of the policy is registered.
RECURSIVE Scan(_, _, _)
Scan(objs, rem, start) ==
    IF rem = << >>
    THEN [objs |-> objs, cur |-> 0, seen |-> {}, idx |-> 0, nextLevel |-> 0,
          warned |-> {}]
    ELSE LET id == Head(rem)
             alert == objs[id]
             nextLevel == alert.escalationLevel + 1
             first == IF HasPolicy(nextLevel)
                      THEN NextChannel(Policy(nextLevel).channels, 1) ELSE 0
             rest(o, w) == LET r == Scan(o, Tail(rem), start)
                           IN  [r EXCEPT !.seen = @ \cup {id}, !.warned = @ \cup w]
         IN  IF ~Due(alert, start) THEN rest(objs, {})
             ELSE IF ~HasPolicy(nextLevel)
                  THEN rest([objs EXCEPT ![id] = NoPolicyReturn(alert)], {id})
             ELSE IF first = 0
                  THEN rest([objs EXCEPT ![id] = Promote(alert, nextLevel)], {})
             ELSE [objs |-> objs, cur |-> id, seen |-> {id}, idx |-> first,
                   nextLevel |-> nextLevel, warned |-> {}]

\* The pass p continues its loop over the alerts it has not visited.
PassContinue(p, objs, visited, start, resolvedAtStart) ==
    LET r == Scan(objs, Remaining(visited), start)
    IN  /\ alertObjs' = r.objs
        /\ noPolicyWarned' = noPolicyWarned \cup r.warned
        /\ pass' = [pass EXCEPT ![p] =
                      IF r.cur = 0 THEN IdlePass
                      ELSE [pc |-> "send", start |-> start,
                            visited |-> visited \cup r.seen, cur |-> r.cur,
                            nextLevel |-> r.nextLevel, idx |-> r.idx,
                            resolvedAtStart |-> resolvedAtStart]]

\* Lines 1166-1175 and 1343-1355: the timer callback starts a pass.
PassStart(p) ==
    /\ isActive
    /\ pass[p].pc = "idle"
    /\ InFlight < MaxInFlight
    /\ PassContinue(p, alertObjs, {}, now, resolvedOk)
    /\ UNCHANGED << orchVars, coordVars, validation, now, isActive, alertChannels, alertHistory, activeAlerts,
                    suppressionRules, trig, res, channelLog, resolvedOk, failures >>

\* Lines 1422-1432 and 1374-1386: one send of sendEscalationNotifications
\* completes; after the last one escalateAlert updates the alert and the
\* loop of processEscalations goes on.
PassSendDone(p, outcome) ==
    /\ pass[p].pc = "send"
    /\ outcome \in Outcomes(Policy(pass[p].nextLevel).channels[pass[p].idx])
    /\ LET id == pass[p].cur
           nextLevel == pass[p].nextLevel
           chs == Policy(nextLevel).channels
           next == NextChannel(chs, pass[p].idx + 1)
       IN  /\ channelLog' = [channelLog EXCEPT ![id] =
                 Append(@, LogEntry("escalation", nextLevel, chs[pass[p].idx], outcome))]
           /\ failures' = IF outcome = "failed" THEN failures + 1 ELSE failures
           /\ IF next # 0
              THEN /\ pass' = [pass EXCEPT ![p].idx = next]
                   /\ UNCHANGED << alertObjs, noPolicyWarned >>
              ELSE PassContinue(p,
                      [alertObjs EXCEPT ![id] = Promote(alertObjs[id], nextLevel)],
                      pass[p].visited, pass[p].start, pass[p].resolvedAtStart)
    /\ UNCHANGED << orchVars, coordVars, validation, now, isActive, alertChannels, alertHistory, activeAlerts,
                    suppressionRules, trig, res, resolvedOk >>

\* ------------------------------------------------------------ resolveAlert
\* [...new Set(originalChannels)] of sendResolutionNotification, restricted
\* to the registered channels: first occurrences, in order.
RECURSIVE UniqueSent(_, _)
UniqueSent(ns, seen) ==
    IF ns = << >> THEN << >>
    ELSE LET n == Head(ns)
         IN  IF n.status = "sent" /\ n.channel \notin seen
             THEN (IF n.channel \in alertChannels THEN << n.channel >> ELSE << >>)
                  \o UniqueSent(Tail(ns), seen \cup {n.channel})
             ELSE UniqueSent(Tail(ns), seen)

\* A delete that removes nothing.
MapKeep(map, id) == map

MapDelete(map, id) == SelectSeq(map, LAMBDA x : x # id)

\* Lines 1438-1452: lookup, mark the alert resolved, start the resolution
\* notifications.  id may be any id, known or not.
ResolveStart(r, id) ==
    /\ isActive
    /\ res[r].pc = "idle"
    /\ InFlight < MaxInFlight
    /\ IF \A i \in 1 .. Len(activeAlerts) : activeAlerts[i] # id
       THEN UNCHANGED << alertObjs, res >>
       ELSE /\ alertObjs' = [alertObjs EXCEPT ![id].status = "resolved",
                                              ![id].resolvedAt = Some(now)]
            /\ res' = [res EXCEPT ![r] =
                         [pc |-> "send", id |-> id,
                          chans |-> UniqueSent(alertObjs[id].notificationsSent, {})]]
    /\ UNCHANGED << orchVars, coordVars, validation, now, isActive, alertChannels, alertHistory, activeAlerts,
                    suppressionRules, trig, pass, channelLog, resolvedOk, failures,
                    noPolicyWarned >>

\* Lines 1492-1501: one send of sendResolutionNotification completes.
ResolveSendDone(r, outcome) ==
    /\ res[r].pc = "send"
    /\ res[r].chans # << >>
    /\ outcome \in Outcomes(Head(res[r].chans))
    /\ channelLog' = [channelLog EXCEPT ![res[r].id] =
          Append(@, LogEntry("resolution", 0, Head(res[r].chans), outcome))]
    /\ failures' = IF outcome = "failed" THEN failures + 1 ELSE failures
    /\ res' = [res EXCEPT ![r].chans = Tail(@)]
    /\ UNCHANGED << orchVars, coordVars, validation, now, isActive, alertChannels, alertObjs, alertHistory,
                    activeAlerts, suppressionRules, trig, pass, resolvedOk,
                    noPolicyWarned >>

\* Lines 1454-1458: the alert leaves activeAlerts and resolveAlert returns true.
ResolveFinish(r) ==
    /\ res[r].pc = "send"
    /\ res[r].chans = << >>
    /\ activeAlerts' = MapDelete(activeAlerts, res[r].id)
    /\ resolvedOk' = resolvedOk \cup { res[r].id }
    /\ res' = [res EXCEPT ![r] = IdleRes]
    /\ UNCHANGED << orchVars, coordVars, validation, now, isActive, alertChannels, alertObjs, alertHistory,
                    suppressionRules, trig, pass, channelLog, failures,
                    noPolicyWarned >>

\* resolveAlert returns true for an active alert and does nothing else.
resolveAlertStub(r, id, outcome) ==
    /\ isActive
    /\ \E i \in 1 .. Len(activeAlerts) : activeAlerts[i] = id
    /\ id \notin resolvedOk
    /\ resolvedOk' = resolvedOk \cup { id }
    /\ UNCHANGED << orchVars, coordVars, validation, now, isActive, alertChannels, alertObjs, alertHistory,
                    activeAlerts, suppressionRules, trig, pass, res, channelLog,
                    noPolicyWarned, failures >>

\* Lines 1438-1459: the steps of one resolveAlert call.
resolveAlert(r, id, outcome) ==
    \/ ResolveStart(r, id)
    \/ ResolveSendDone(r, outcome)
    \/ ResolveFinish(r)

\* -------------------------------------------------------- validateSolution
\* validationRules.catalogItem.maxVariables of ESCValidationTools.
maxVariables == 100

\* ESCValidationTools.validateVariableCount: the violations it pushes for a
\* catalog item with variableCount variables.
validateVariableCount(variableCount) ==
    IF variableCount > maxVariables
    THEN << [type |-> "variable_count_exceeded", severity |-> "critical",
             actual |-> variableCount, limit |-> maxVariables] >>
    ELSE << >>

\* ESCValidationTools.validateCatalogItem for an item that passes every
\* check but, possibly, the variable count.
validateCatalogItem(variableCount) ==
    LET violations == validateVariableCount(variableCount)
    IN  [compliant |-> violations = << >>, violations |-> violations]

\* ESCValidationTools.validateCompleteSolution for a solution of one catalog
\* item: the result holds validations and overallCompliant, and no
\* violations property of its own.
validateCompleteSolution(variableCount) ==
    LET item == validateCatalogItem(variableCount)
    IN  [overallCompliant |-> item.compliant, validations |-> << item >>]

\* ------------------------------------------------------ ESCAgentCoordinator
\* A JavaScript Map as the sequence of its entries, in insertion order.
MapHas(map, k) == \E i \in 1 .. Len(map) : map[i].key = k
MapIndex(map, k) == CHOOSE i \in 1 .. Len(map) : map[i].key = k
MapGet(map, k) == map[MapIndex(map, k)].value

\* A set that adds an entry without looking for the key.
MapAdd(map, k, v) == Append(map, [key |-> k, value |-> v])

\* Map.set: the value of an existing key is replaced in place, a new key is
\* added at the end.
MapSet(map, k, v) ==
    IF MapHas(map, k)
    THEN [map EXCEPT ![MapIndex(map, k)].value = v]
    ELSE Append(map, [key |-> k, value |-> v])

\* coordinationRules.criticalViolations of ESCAgentCoordinator.
criticalViolationRules ==
    [variableCountExceeded |->
        [action |-> "immediate_halt", notifyAll |-> TRUE, escalate |-> FALSE],
     invalidUserCriteria |->
        [action |-> "immediate_correction", notifyAll |-> TRUE, escalate |-> FALSE],
     securityViolation |->
        [action |-> "immediate_halt", notifyAll |-> TRUE, escalate |-> TRUE]]

\* A message object: id stands for the identity of the object, priority is
\* "undefined" until sendUrgentMessage sets it.
Message(id, type) == [id |-> id, type |-> type, priority |-> "undefined"]

\* Lines 627-639: the queue is created when absent and the message, marked
\* urgent, is inserted at its front.
sendUrgentMessage(mq, agentId, message) ==
    LET q == IF MapHas(mq, agentId) THEN MapGet(mq, agentId) ELSE << >>
    IN  MapSet(mq, agentId, << [message EXCEPT !.priority = "urgent"] >> \o q)

\* Lines 647-653: the queue is created when absent and the message is added
\* at its end.
sendMessage(mq, agentId, message) ==
    LET q == IF MapHas(mq, agentId) THEN MapGet(mq, agentId) ELSE << >>
    IN  MapSet(mq, agentId, Append(q, message))

\* A broadcast that leaves out the agent registered first.
RECURSIVE broadcastToOthers(_, _, _)
broadcastToOthers(mq, agents, message) ==
    IF Len(agents) <= 1 THEN mq
    ELSE broadcastToOthers(sendMessage(mq, agents[Len(agents)].key, message),
                           SubSeq(agents, 1, Len(agents) - 1), message)

\* Lines 641-645: sendMessage for every key of activeAgents, in Map order.
RECURSIVE broadcastToAllAgents(_, _, _)
broadcastToAllAgents(mq, agents, message) ==
    IF agents = << >> THEN mq
    ELSE broadcastToAllAgents(sendMessage(mq, Head(agents).key, message),
                              Tail(agents), message)

\* Lines 395-423: for each critical violation with a rule, the command of
\* the rule's action goes to the violating agent as an urgent message and,
\* with notifyAll, a critical_violation_alert is broadcast.  st holds the
\* message queue, the number of message objects made so far and whether the
\* call has thrown: escalateCriticalViolation (line 419) is not defined, so
\* a rule with escalate ends the call with a TypeError.
RECURSIVE handleCriticalViolations(_, _, _, _)
handleCriticalViolations(st, agents, agentId, violations) ==
    IF violations = << >> \/ st.threw THEN st
    ELSE LET v == Head(violations)
         IN  IF v.type \notin DOMAIN criticalViolationRules
             THEN handleCriticalViolations(st, agents, agentId, Tail(violations))
             ELSE LET rule == criticalViolationRules[v.type]
                      mq1 == sendUrgentMessage(st.mq, agentId,
                                               Message(st.n + 1, rule.action))
                      mq2 == IF rule.notifyAll
                             THEN broadcastToAllAgents(mq1, agents,
                                     Message(st.n + 2, "critical_violation_alert"))
                             ELSE mq1
                      n2 == IF rule.notifyAll THEN st.n + 2 ELSE st.n + 1
                  IN  handleCriticalViolations(
                          [mq |-> mq2, n |-> n2, threw |-> rule.escalate],
                          agents, agentId, Tail(violations))

\* Line 726: createCorrectionTask.
createCorrectionTask(violation) ==
    [violation |-> violation, estimatedTime |-> 10, priority |-> 1,
     requiredCapabilities |-> << >>]

\* Lines 428-451: one task per violation; the sort by priority is stable and
\* every priority is 1, so the tasks keep the order of the violations.
createCorrectionPlan(agentId, violations) ==
    [agentId |-> agentId,
     tasks |-> [i \in 1 .. Len(violations) |-> createCorrectionTask(violations[i])]]

\* Array.includes.
Includes(array, x) == \E i \in 1 .. Len(array) : array[i] = x

\* Lines 658-660: agent.capabilities.filter(cap =>
\* task.requiredCapabilities.includes(cap)).length.
CapabilityMatches(agent, task) ==
    Cardinality({ i \in 1 .. Len(agent.capabilities) :
                    Includes(task.requiredCapabilities, agent.capabilities[i]) })

\* Lines 655-669 in exact arithmetic, in tenths.
ExactScore(agent, task) ==
    CapabilityMatches(agent, task) * 100 + agent.validationScore
        - agent.violationCount * 20

\* Lines 655-669, calculateAgentSuitabilityScore.  The three statements
\* "score += matches * 10; score += validationScore * 0.1;
\* score -= violationCount * 2" run in IEEE-754 double arithmetic, and the
\* product with 0.1 is rounded.  The result is written << t, u >>: the
\* double lying u units in the last place above the double nearest to t / 10.
\* For one match, validationScore in { 1, 41, 100 } and violationCount in
\* 0 .. 2 the doubles are
\*    1: 10.1, 8.1, 6.1    41: 14.100000000000001, 12.100000000000001,
\*    10.100000000000001    100: 20, 18, 16
\* (41 * 0.1 is 4.1000000000000005), and with two matches 20.1, 18.1, 16.1,
\* 24.1, 22.1, 20.1, 30, 28, 26.
calculateAgentSuitabilityScore(agent, task) ==
    << ExactScore(agent, task),
       IF CapabilityMatches(agent, task) = 1 /\ agent.validationScore = 41
       THEN 1 ELSE 0 >>

\* a < b for two doubles written as above.
ScoreLess(a, b) == a[1] < b[1] \/ (a[1] = b[1] /\ a[2] < b[2])

\* Lines 456-479: the candidates are the agents with status active and a
\* capability among the required ones, in Map order; the sort on descending
\* score is stable, so the first candidate with the greatest score comes
\* first.  "null" stands for null.
findBestAgentForTask(agents, task) ==
    LET cand == { i \in 1 .. Len(agents) :
                    /\ agents[i].value.status = "active"
                    /\ \E c \in 1 .. Len(agents[i].value.capabilities) :
                          Includes(task.requiredCapabilities,
                                   agents[i].value.capabilities[c]) }
        score(i) == calculateAgentSuitabilityScore(agents[i].value, task)
        best == { i \in cand : \A j \in cand : ~ScoreLess(score(i), score(j)) }
    IN  IF cand = {} THEN "null"
        ELSE agents[CHOOSE i \in best : \A j \in best : i <= j].key

\* Lines 380-386: findBestAgentForTask for each task of the plan;
\* assignCorrectionTask (line 724) has an empty body.  The result is the
\* list of the tasks with the agent found for each.
AssignTasks(agents, plan) ==
    [i \in 1 .. Len(plan.tasks) |->
        [agentId |-> plan.agentId, task |-> plan.tasks[i],
         assignedAgent |-> findBestAgentForTask(agents, plan.tasks[i])]]

\* Lines 366-390, coordinateViolationResponse: "validationResult.violations
\* || []" is filtered on critical severity and handed to
\* handleCriticalViolations; then the correction plan is made and its tasks
\* are handed out.  Every await of the method resolves without leaving the
\* turn.  The result holds the message queue, the number of message objects
\* made and the tasks of the plan.
coordinateViolationResponse(mq, n, agents, agentId, validationResult) ==
    LET violations == IF "violations" \in DOMAIN validationResult
                      THEN validationResult.violations ELSE << >>
        criticalViolations == SelectSeq(violations, LAMBDA v : v.severity = "critical")
        st == handleCriticalViolations([mq |-> mq, n |-> n, threw |-> FALSE],
                                       agents, agentId, criticalViolations)
    IN  [mq |-> st.mq, n |-> st.n, threw |-> st.threw,
         tasks |-> IF st.threw THEN << >>
                   ELSE AssignTasks(agents, createCorrectionPlan(agentId, violations))]

\* agentInfo arguments of registerAgent.
AgentIds == { "agent_1", "agent_2" }
AgentInfos ==
    { [id |-> a, type |-> "catalog_builder", capabilities |-> c] :
        a \in AgentIds, c \in { << "catalog" >>, << "workflow" >> } }

\* validationResult of the messages handed to handleValidationResult.
ValidationResults ==
    { [compliant |-> TRUE, score |-> 1, violations |-> << >>],
      [compliant |-> FALSE, score |-> 41,
       violations |-> << [type |-> "performanceConcern", severity |-> "high"],
                         [type |-> "itemDesignerLimitation", severity |-> "high"] >>],
      [compliant |-> FALSE, score |-> 100,
       violations |-> << [type |-> "variableCountExceeded", severity |-> "critical"] >>] }

\* task arguments of findBestAgentForTask.
Tasks ==
    { [requiredCapabilities |-> << "catalog" >>],
      [requiredCapabilities |-> << "catalog", "workflow" >>] }

\* Lines 201-211: the agent object registerAgent builds.
NewAgent(agentInfo) ==
    [id |-> agentInfo.id, type |-> agentInfo.type,
     capabilities |-> agentInfo.capabilities, status |-> "active",
     lastSeen |-> now, validationScore |-> 100, violationCount |-> 0,
     healthStatus |-> "undefined"]

\* Lines 198-227: the agent object is stored under its id; the three calls
\* that follow have an empty body.
registerAgent(agentInfo) ==
    /\ Len(registrations) < MaxRegistrations
    /\ activeAgents' = MapSet(activeAgents, agentInfo.id, NewAgent(agentInfo))
    /\ registrations' = Append(registrations, agentInfo)
    /\ UNCHANGED << messageQueue, delivered, proc, msgCount, found, plans >>
    /\ UNCHANGED alertVars

\* Lines 303-328: the agent's score and violation count are taken from the
\* result ("validationResult.score || 100"), and a result that is not
\* compliant goes to coordinateViolationResponse.
handleValidationResult(message) ==
    LET agentId == message.sourceAgent
        validationResult == message.validationResult
        agents == IF MapHas(activeAgents, agentId)
                  THEN MapSet(activeAgents, agentId,
                         [MapGet(activeAgents, agentId) EXCEPT
                            !.validationScore = IF validationResult.score = 0
                                                THEN 100 ELSE validationResult.score,
                            !.violationCount = Len(validationResult.violations)])
                  ELSE activeAgents
        r == coordinateViolationResponse(messageQueue, msgCount, agents, agentId,
                                         validationResult)
    IN  /\ activeAgents' = agents
        /\ IF validationResult.compliant
           THEN UNCHANGED << messageQueue, msgCount, plans >>
           ELSE /\ r.n <= MaxMessages
                /\ Len(plans) + Len(r.tasks) <= MaxTasks
                /\ messageQueue' = r.mq
                /\ msgCount' = r.n
                /\ plans' = plans \o r.tasks
        /\ UNCHANGED << registrations, delivered, proc, found >>
        /\ UNCHANGED alertVars

\* Lines 641-645 called with a message of its own.
BroadcastToAllAgents(type) ==
    /\ msgCount < MaxMessages
    /\ messageQueue' = broadcastToAllAgents(messageQueue, activeAgents,
                                            Message(msgCount + 1, type))
    /\ msgCount' = msgCount + 1
    /\ UNCHANGED << activeAgents, registrations, delivered, proc, found, plans >>
    /\ UNCHANGED alertVars

\* Lines 456-479 called for a task; the result is kept in found.
FindBestAgentForTask(task) ==
    /\ found' = Some([task |-> task,
                      agentId |-> findBestAgentForTask(activeAgents, task)])
    /\ UNCHANGED << messageQueue, activeAgents, registrations, delivered, proc,
                    msgCount, plans >>
    /\ UNCHANGED alertVars

\* Line 732: assessAgentHealth.
assessAgentHealth(agent) == [status |-> "healthy"]

\* Lines 561-572: every agent gets the health assessAgentHealth returns;
\* initiateAgentRecovery is reached for no agent.
checkAgentHealth ==
    /\ activeAgents' = [i \in 1 .. Len(activeAgents) |->
                          [activeAgents[i] EXCEPT
                             !.value.healthStatus =
                                 assessAgentHealth(activeAgents[i].value).status]]
    /\ UNCHANGED << messageQueue, registrations, delivered, proc, msgCount,
                    found, plans >>
    /\ UNCHANGED alertVars

Urgent(m) == m.priority \in { "urgent", "critical" }

\* Lines 577-598 from the entry at position pos of the Map iterator up to the
\* next await: entries without messages are skipped; for the first entry
\* with messages the priority and the regular messages are filtered out and
\* the first delivery is started (deliverMessage for the first priority
\* message, or deliverMessageBatch when there is none).
RECURSIVE ProcessFrom(_, _, _)
ProcessFrom(mq, dl, pos) ==
    IF pos > Len(mq) THEN [mq |-> mq, delivered |-> dl, proc |-> IdleProc]
    ELSE LET agentId == mq[pos].key
             messages == mq[pos].value
             priorityMessages == SelectSeq(messages, Urgent)
             regularMessages == SelectSeq(messages, LAMBDA m : ~Urgent(m))
             Batch(ms) == [i \in 1 .. Len(ms) |-> [agentId |-> agentId, message |-> ms[i]]]
         IN  IF messages = << >> THEN ProcessFrom(mq, dl, pos + 1)
             ELSE IF priorityMessages # << >>
             THEN [mq |-> mq,
                   delivered |-> Append(dl, [agentId |-> agentId,
                                             message |-> Head(priorityMessages)]),
                   proc |-> [pc |-> "priority", pos |-> pos,
                             rest |-> Tail(priorityMessages),
                             regular |-> regularMessages]]
             ELSE [mq |-> mq,
                   delivered |-> dl \o Batch(regularMessages),
                   proc |-> [pc |-> "batch", pos |-> pos, rest |-> << >>,
                             regular |-> << >>]]

\* processMessageQueue is called: by the timer of line 156 or directly.
ProcessStart ==
    /\ proc.pc = "idle"
    /\ LET r == ProcessFrom(messageQueue, delivered, 1)
       IN  /\ delivered' = r.delivered
           /\ proc' = r.proc
    /\ UNCHANGED << messageQueue, activeAgents, registrations, msgCount, found, plans >>
    /\ UNCHANGED alertVars

\* A delivery of processMessageQueue has completed: the next priority
\* message is delivered, or the batch of the regular ones, or (line 596) the
\* agent's queue is replaced by an empty one and the loop goes on.
ProcessResume ==
    /\ proc.pc \in { "priority", "batch" }
    /\ LET agentId == messageQueue[proc.pos].key
           Batch(ms) == [i \in 1 .. Len(ms) |-> [agentId |-> agentId, message |-> ms[i]]]
       IN  IF proc.pc = "priority" /\ proc.rest # << >>
           THEN /\ delivered' = Append(delivered, [agentId |-> agentId,
                                                   message |-> Head(proc.rest)])
                /\ proc' = [proc EXCEPT !.rest = Tail(@)]
                /\ UNCHANGED messageQueue
           ELSE IF proc.pc = "priority" /\ proc.regular # << >>
           THEN /\ delivered' = delivered \o Batch(proc.regular)
                /\ proc' = [proc EXCEPT !.pc = "batch", !.regular = << >>]
                /\ UNCHANGED messageQueue
           ELSE LET r == ProcessFrom(MapSet(messageQueue, agentId, << >>),
                                     delivered, proc.pos + 1)
                IN  /\ messageQueue' = r.mq
                    /\ delivered' = r.delivered
                    /\ proc' = r.proc
    /\ UNCHANGED << activeAgents, registrations, msgCount, found, plans >>
    /\ UNCHANGED alertVars

\* The clock of the coordinator's timestamps (lastSeen).
CoordTick ==
    /\ proc.pc = "idle"
    /\ now < MaxCoordTime
    /\ now' = now + 1
    /\ UNCHANGED coordVars
    /\ UNCHANGED << orchVars, isActive, alertChannels, alertObjs, alertHistory,
                    activeAlerts, suppressionRules, trig, pass, res, channelLog,
                    resolvedOk, noPolicyWarned, failures, validation >>

\* Lines 768-790: validateSolution validates the solution and, when it is
\* not compliant, awaits triggerAlert for its violation.
ValidateStart(variableCount, agentId) ==
    LET result == validateCompleteSolution(variableCount)
    IN  IF result.overallCompliant
        THEN isActive /\ UNCHANGED vars
        ELSE /\ TriggerStart(result.validations[1].violations[1], agentId)
             /\ validation' = Append(validation,
                                     [pc |-> "alerting", agentId |-> agentId,
                                      result |-> result,
                                      alertId |-> Len(alertObjs) + 1])
             /\ UNCHANGED orchVars

\* Lines 796-802: triggerAlert has returned; validateSolution calls
\* coordinateViolationResponse and returns the result.
ValidateCoordinate(k) ==
    /\ k \in 1 .. Len(validation)
    /\ validation[k].pc = "alerting"
    /\ trig[validation[k].alertId].pc = "done"
    /\ LET r == coordinateViolationResponse(messageQueue, msgCount, activeAgents,
                                            validation[k].agentId,
                                            validation[k].result)
       IN  /\ r.n <= MaxMessages
           /\ Len(plans) + Len(r.tasks) <= MaxTasks
           /\ messageQueue' = r.mq
           /\ msgCount' = r.n
           /\ plans' = plans \o r.tasks
    /\ validation' = [validation EXCEPT ![k].pc = "done"]
    /\ UNCHANGED << orchVars, activeAgents, registrations, delivered, proc, found, now, isActive, alertChannels, alertObjs, alertHistory,
                    activeAlerts, suppressionRules, trig, pass, res, channelLog,
                    resolvedOk, noPolicyWarned, failures >>

\* ------------------------------------------------------ health supervision
\* The keys of this.systems, in the order initialize() sets them (lines
\* 44-68); checkSystemHealth fills systemHealth in the same order.
SystemNames == << "validator", "monitor", "tools", "coordinator", "alerts" >>

\* The flag assessSystemHealth and recoverSystem read for a subsystem:
\* monitoringActive, isMonitoring, isActive.  The tools have none.
Flag(name) ==
    IF name = "alerts" THEN isActive
    ELSE IF name = "tools" THEN TRUE
    ELSE systemFlags[name]

\* Lines 296-354: a subsystem is unhealthy when its flag is false; the check
\* of the tools, a validateCatalogItem call, finds them healthy.
assessSystemHealth(name) == IF Flag(name) THEN "healthy" ELSE "unhealthy"

\* Lines 276-291, checkSystemHealth.
checkSystemHealth ==
    [i \in 1 .. Len(SystemNames) |->
        [key |-> SystemNames[i], value |-> assessSystemHealth(SystemNames[i])]]

\* The start methods recoverSystem calls.  startContinuousMonitoring of the
\* validator calls this.setupAgentCoordination (line 88 of
\* esc-compliance-validator.js) and startCoordination ends in
\* this.setupPriorityMessageHandler (line 167 of the coordinator): neither
\* method is defined, so both calls throw a TypeError.
StartThrows(name) == name \in { "validator", "coordinator" }

\* Each start method sets its flag in its first statement, before anything
\* that can throw.
FlagAfterStart(name) == TRUE

\* The 30-second callback of startHealthMonitoring begins: checkSystemHealth.
CycleStart ==
    /\ cycle.pc = "idle"
    /\ cycle.n < MaxCycles
    /\ systemHealth' = checkSystemHealth
    /\ cycle' = [pc |-> "recover", n |-> cycle.n + 1, pos |-> 1, alertId |-> 0]
    /\ UNCHANGED << systemFlags, restartLog, coordVars, now, isActive,
                    alertChannels, alertObjs, alertHistory, activeAlerts,
                    suppressionRules, trig, pass, res, channelLog, resolvedOk,
                    noPolicyWarned, failures, validation >>
    /\ UNCHANGED lifeVars

\* Lines 371-423, recoverSystem: the start method is called when the flag is
\* false; after a start that returns the subsystem is set healthy, after one
\* that throws a system_failure alert is triggered when the alert system is
\* active.
recoverSystem(systemName) ==
    LET attempt == systemName # "tools" /\ ~Flag(systemName)
        threw == attempt /\ StartThrows(systemName)
        next == [cycle EXCEPT !.pos = @ + 1]
    IN  /\ systemFlags' = IF attempt /\ systemName \in DOMAIN systemFlags
                          THEN [systemFlags EXCEPT ![systemName] = FlagAfterStart(systemName)]
                          ELSE systemFlags
        /\ restartLog' = IF attempt
                         THEN Append(restartLog,
                                     [system |-> systemName, cycle |-> cycle.n,
                                      failed |-> threw, alerts |-> isActive])
                         ELSE restartLog
        /\ IF threw
           THEN /\ UNCHANGED systemHealth
                /\ IF isActive
                   THEN /\ TriggerStart([type |-> "system_failure",
                                         severity |-> "critical",
                                         system |-> systemName], "")
                        /\ cycle' = [cycle EXCEPT !.pc = "alerting",
                                                  !.alertId = Len(alertObjs) + 1]
                        /\ UNCHANGED validation
                   ELSE /\ cycle' = next
                        /\ UNCHANGED << coordVars, now, isActive, alertChannels,
                                        alertObjs, alertHistory, activeAlerts,
                                        suppressionRules, trig, pass, res,
                                        channelLog, resolvedOk, noPolicyWarned,
                                        failures, validation >>
           ELSE /\ systemHealth' = [systemHealth EXCEPT ![cycle.pos].value = "healthy"]
                /\ cycle' = next
                /\ IF attempt /\ systemName = "alerts"
                   THEN isActive' = TRUE /\ alertChannels' = BaseChannels
                   ELSE UNCHANGED << isActive, alertChannels >>
                /\ UNCHANGED << coordVars, now, alertObjs, alertHistory,
                                activeAlerts, suppressionRules, trig, pass, res,
                                channelLog, resolvedOk, noPolicyWarned, failures,
                                validation >>
        /\ UNCHANGED lifeVars

\* Lines 359-366, handleUnhealthySystems: the next entry of systemHealth.
RecoverNext ==
    /\ cycle.pc = "recover"
    /\ cycle.pos <= Len(systemHealth)
    /\ IF systemHealth[cycle.pos].value \in { "unhealthy", "error" }
       THEN recoverSystem(systemHealth[cycle.pos].key)
       ELSE /\ cycle' = [cycle EXCEPT !.pos = @ + 1]
            /\ UNCHANGED << systemFlags, systemHealth, restartLog, coordVars, now,
                            isActive, alertChannels, alertObjs, alertHistory,
                            activeAlerts, suppressionRules, trig, pass, res,
                            channelLog, resolvedOk, noPolicyWarned, failures,
                            validation >>
    /\ UNCHANGED lifeVars

\* Line 411: the triggerAlert call of recoverSystem has returned.
RecoverResume ==
    /\ cycle.pc = "alerting"
    /\ trig[cycle.alertId].pc = "done"
    /\ cycle' = [cycle EXCEPT !.pc = "recover", !.pos = @ + 1, !.alertId = 0]
    /\ UNCHANGED << systemFlags, systemHealth, restartLog, coordVars, now,
                    isActive, alertChannels, alertObjs, alertHistory,
                    activeAlerts, suppressionRules, trig, pass, res,
                    channelLog, resolvedOk, noPolicyWarned, failures,
                    validation >>
    /\ UNCHANGED lifeVars

\* The loop of handleUnhealthySystems is over and the callback returns.
CycleEnd ==
    /\ cycle.pc = "recover"
    /\ cycle.pos > Len(systemHealth)
    /\ cycle' = [cycle EXCEPT !.pc = "idle", !.pos = 0]
    /\ UNCHANGED << systemFlags, systemHealth, restartLog, coordVars, now,
                    isActive, alertChannels, alertObjs, alertHistory,
                    activeAlerts, suppressionRules, trig, pass, res,
                    channelLog, resolvedOk, noPolicyWarned, failures,
                    validation >>
    /\ UNCHANGED lifeVars

\* ESCRealTimeMonitor.stopMonitoring (lines 828-840 of real-time-monitor.js).
stopMonitoring ==
    /\ systemFlags.monitor
    /\ Cardinality({ i \in 1 .. Len(restartLog) : restartLog[i].system = "monitor" })
          < MaxMonitorRestarts
    /\ systemFlags' = [systemFlags EXCEPT !.monitor = FALSE]
    /\ UNCHANGED << systemHealth, restartLog, cycle, coordVars, now,
                    isActive, alertChannels, alertObjs, alertHistory,
                    activeAlerts, suppressionRules, trig, pass, res,
                    channelLog, resolvedOk, noPolicyWarned, failures,
                    validation >>
    /\ UNCHANGED lifeVars

\* ------------------------------------------------------------------ clock
\* The clock is read in whole minutes; a handler that has started runs to
\* its end within the minute it reads, so the clock moves between handlers.
Quiescent == InFlight = 0

\* Instants at which a timer of the program expires.
Deadlines ==
    { Val(alertObjs[id].escalationScheduled) :
        id \in { i \in Ids : IsSome(alertObjs[i].escalationScheduled) } }
    \cup { suppressionRules[k].until : k \in DOMAIN suppressionRules }

Tick ==
    /\ isActive
    /\ Quiescent
    /\ now < MaxTime
    /\ now' = now + 1
    /\ UNCHANGED << orchVars, coordVars, validation, isActive, alertChannels, alertObjs, alertHistory, activeAlerts,
                    suppressionRules, trig, pass, res, channelLog, resolvedOk,
                    noPolicyWarned, failures >>

\* The clock moves on to an instant, not later than horizon, at which a
\* timer expires.
TickToDeadline(horizon) ==
    /\ isActive
    /\ Quiescent
    /\ \E d \in Deadlines : d > now /\ d <= horizon /\ now' = d
    /\ UNCHANGED << orchVars, coordVars, validation, isActive, alertChannels, alertObjs, alertHistory, activeAlerts,
                    suppressionRules, trig, pass, res, channelLog, resolvedOk,
                    noPolicyWarned, failures >>

Next ==
    \/ startAlertSystem
    \/ \E v \in Violations, a \in ContextAgents :
          TriggerStart(v, a) /\ UNCHANGED << validation, orchVars >>
    \/ \E id \in Ids : TriggerStore(id)
    \/ \E id \in Ids, o \in { "sent", "failed" } : TriggerSendDone(id, o)
    \/ \E p \in Passes : PassStart(p)
    \/ \E p \in Passes, o \in { "sent", "failed" } : PassSendDone(p, o)
    \/ \E r \in Resolvers, id \in 1 .. MaxAlerts, o \in { "sent", "failed" } :
          resolveAlert(r, id, o)
    \/ Tick
    \/ TickToDeadline(MaxDeadline)

Spec == Init /\ [][Next]_vars

\* One escalating alert followed over the whole escalation policy list:
\* the clock runs up to EscHorizon and no send fails.
NextEsc ==
    \/ startAlertSystem
    \/ \E v \in EscViolations, a \in ContextAgents :
          Len(alertObjs) < MaxEscAlerts /\ TriggerStart(v, a) /\ UNCHANGED << validation, orchVars >>
    \/ \E id \in Ids : TriggerStore(id)
    \/ \E id \in Ids : TriggerSendDone(id, "sent")
    \/ \E p \in Passes : PassStart(p)
    \/ \E p \in Passes : PassSendDone(p, "sent")
    \/ \E r \in Resolvers, id \in 1 .. MaxEscAlerts : resolveAlert(r, id, "sent")
    \/ Tick
    \/ TickToDeadline(EscHorizon)

SpecEsc == Init /\ [][NextEsc]_vars

\* Lines 1148-1160 and 1673-1675: the 5-second timer of startAlertProcessing
\* runs processAlertQueue, checkAlertSuppressions and updateAlertStatuses,
\* three methods with an empty body.
processAlertQueue ==
    /\ isActive
    /\ UNCHANGED vars

\* The rules of the lower severities next to a critical one: an advisory
\* rule (escalate false), a queued escalating rule and an immediate
\* escalating rule; no send fails.
AdvViolations ==
    { [type |-> "itemDesignerLimitation", severity |-> "high"],
      [type |-> "performanceConcern", severity |-> "high"],
      [type |-> "variableCountExceeded", severity |-> "critical"] }

NextAdv ==
    \/ startAlertSystem
    \/ \E v \in AdvViolations, a \in ContextAgents :
          TriggerStart(v, a) /\ UNCHANGED << validation, orchVars >>
    \/ \E id \in Ids : TriggerStore(id)
    \/ \E id \in Ids : TriggerSendDone(id, "sent")
    \/ processAlertQueue
    \/ \E p \in Passes : PassStart(p)
    \/ \E p \in Passes : PassSendDone(p, "sent")
    \/ \E r \in Resolvers, id \in 1 .. MaxAlerts : resolveAlert(r, id, "sent")
    \/ Tick
    \/ TickToDeadline(AdvHorizon)

SpecAdv == Init /\ [][NextAdv]_vars

\* The same program with its timers and pending completions never starved:
\* a step that stays possible is eventually taken.
SpecAdvFair == Init /\ [][NextAdv]_vars /\ WF_vars(NextAdv)

\* Channels whose sendNotification may return a promise that never settles.
HangingChannels == { "email" }

\* Line 1267: the promise awaited by sendImmediateNotifications never
\* settles; no timeout surrounds the await, so triggerAlert stays there.
TriggerSendHang(id) ==
    /\ id \in Ids
    /\ trig[id].pc = "send"
    /\ getAlertRules(alertObjs[id].violation).channels[trig[id].idx] \in HangingChannels
    /\ trig' = [trig EXCEPT ![id].pc = "hung"]
    /\ UNCHANGED << orchVars, coordVars, validation, now, isActive, alertChannels, alertObjs, alertHistory,
                    activeAlerts, suppressionRules, pass, res, channelLog,
                    resolvedOk, noPolicyWarned, failures >>

\* Line 1426: the promise awaited by sendEscalationNotifications never
\* settles; escalateAlert and the loop of processEscalations stay there.
PassSendHang(p) ==
    /\ pass[p].pc = "send"
    /\ Policy(pass[p].nextLevel).channels[pass[p].idx] \in HangingChannels
    /\ pass' = [pass EXCEPT ![p].pc = "hung"]
    /\ UNCHANGED << orchVars, coordVars, validation, now, isActive, alertChannels, alertObjs, alertHistory,
                    activeAlerts, suppressionRules, trig, res, channelLog,
                    resolvedOk, noPolicyWarned, failures >>

\* The program with sends that may never complete; a send that completes
\* succeeds.
NextHang ==
    \/ startAlertSystem
    \/ \E v \in EscViolations, a \in ContextAgents :
          TriggerStart(v, a) /\ UNCHANGED << validation, orchVars >>
    \/ \E id \in Ids : TriggerStore(id)
    \/ \E id \in Ids : TriggerSendDone(id, "sent")
    \/ \E id \in Ids : TriggerSendHang(id)
    \/ \E p \in Passes : PassStart(p)
    \/ \E p \in Passes : PassSendDone(p, "sent")
    \/ \E p \in Passes : PassSendHang(p)
    \/ \E r \in Resolvers, id \in 1 .. MaxAlerts : resolveAlert(r, id, "sent")
    \/ Tick
    \/ TickToDeadline(MaxDeadline)

\* Every step that stays possible is eventually taken; a hung send is the
\* only thing that never completes.
SpecHang == Init /\ [][NextHang]_vars /\ WF_vars(NextHang)

\* Numbers of variables of the catalog item handed to validateSolution.
VariableCounts == { 100, 101 }

\* The alert system fed by validateSolution of the orchestrator next to
\* direct callers of triggerAlert; no send fails.
NextValidate ==
    \/ startAlertSystem
    \/ \E n \in VariableCounts, a \in ContextAgents : ValidateStart(n, a)
    \/ \E k \in 1 .. MaxAlerts : ValidateCoordinate(k)
    \/ \E v \in EscViolations, a \in ContextAgents :
          TriggerStart(v, a) /\ UNCHANGED << validation, orchVars >>
    \/ \E id \in Ids : TriggerStore(id)
    \/ \E id \in Ids : TriggerSendDone(id, "sent")
    \/ \E p \in Passes : PassStart(p)
    \/ \E p \in Passes : PassSendDone(p, "sent")
    \/ \E r \in Resolvers, id \in 1 .. MaxAlerts : resolveAlert(r, id, "sent")
    \/ Tick
    \/ TickToDeadline(MaxDeadline)

SpecValidate == Init /\ [][NextValidate]_vars

\* Callers whose type and agent identifiers contain the "_" that
\* shouldSuppressAlert and setSuppression put between them; no send fails.
KeyViolations ==
    { [type |-> "integrationError", severity |-> "high"],
      [type |-> "integrationError_catalog", severity |-> "high"] }

KeyAgents == { "catalog_agent_1", "agent_1" }

NextKey ==
    \/ startAlertSystem
    \/ \E v \in KeyViolations, a \in KeyAgents :
          TriggerStart(v, a) /\ UNCHANGED << validation, orchVars >>
    \/ \E id \in Ids : TriggerStore(id)
    \/ \E id \in Ids : TriggerSendDone(id, "sent")
    \/ \E p \in Passes : PassStart(p)
    \/ \E p \in Passes : PassSendDone(p, "sent")
    \/ \E r \in Resolvers, id \in 1 .. MaxAlerts : resolveAlert(r, id, "sent")
    \/ Tick
    \/ TickToDeadline(KeyHorizon)

SpecKey == Init /\ [][NextKey]_vars

\* Violation payloads with a property missing.  Reading the missing property
\* gives undefined; it is written "undefined" here, the text the template
\* literals of lines 1205 and 1579 give it as well.
MalformedViolations ==
    { [type |-> "undefined", severity |-> "high"],
      [type |-> "integrationError", severity |-> "undefined"],
      [type |-> "undefined", severity |-> "undefined"] }

Malformed(violation) ==
    violation.type = "undefined" \/ violation.severity = "undefined"

NextMalformed ==
    \/ startAlertSystem
    \/ \E v \in MalformedViolations \cup EscViolations, a \in ContextAgents :
          TriggerStart(v, a) /\ UNCHANGED << validation, orchVars >>
    \/ \E id \in Ids : TriggerStore(id)
    \/ \E id \in Ids : TriggerSendDone(id, "sent")
    \/ \E p \in Passes : PassStart(p)
    \/ \E p \in Passes : PassSendDone(p, "sent")
    \/ \E r \in Resolvers, id \in 1 .. MaxAlerts : resolveAlert(r, id, "sent")
    \/ Tick
    \/ TickToDeadline(MaxDeadline)

SpecMalformed == Init /\ [][NextMalformed]_vars

\* Two resolveAlert calls may be in flight at once: a second call made
\* while the first waits at line 1452.
NextOverlap ==
    \/ startAlertSystem
    \/ \E v \in EscViolations, a \in ContextAgents :
          TriggerStart(v, a) /\ UNCHANGED << validation, orchVars >>
    \/ \E id \in Ids : TriggerStore(id)
    \/ \E id \in Ids : TriggerSendDone(id, "sent")
    \/ \E p \in Passes : PassStart(p)
    \/ \E p \in Passes : PassSendDone(p, "sent")
    \/ \E r \in OverlapResolvers, id \in 1 .. MaxAlerts : resolveAlert(r, id, "sent")
    \/ Tick
    \/ TickToDeadline(MaxDeadline)

SpecOverlap == Init /\ [][NextOverlap]_vars

\* The validation results without a critical violation: they set the score
\* and the violation count of an agent and queue no message.
ScoreResults == { vr \in ValidationResults :
                    \A i \in 1 .. Len(vr.violations) :
                        vr.violations[i].severity # "critical" }

\* The agents of the coordinator: registrations, validation results and
\* task queries.
NextAgents ==
    \/ \E agentInfo \in AgentInfos : registerAgent(agentInfo)
    \/ \E a \in AgentIds, vr \in ScoreResults :
          handleValidationResult([sourceAgent |-> a, validationResult |-> vr])
    \/ \E task \in Tasks : FindBestAgentForTask(task)

SpecAgents == Init /\ [][NextAgents]_vars

\* The health of the agents: registrations, health checks and task queries
\* while the clock of lastSeen runs.
NextHealth ==
    \/ \E agentInfo \in AgentInfos : registerAgent(agentInfo)
    \/ \E task \in Tasks : FindBestAgentForTask(task)
    \/ checkAgentHealth
    \/ CoordTick

SpecHealth == Init /\ [][NextHealth]_vars

\* The agentInfo arguments with the first capability list.
QueueInfos == { agentInfo \in AgentInfos : agentInfo.capabilities = << "catalog" >> }

\* The message queue of the coordinator: messages are queued by validation
\* results and broadcasts and delivered by processMessageQueue.
NextQueue ==
    \/ \E agentInfo \in QueueInfos : registerAgent(agentInfo)
    \/ \E a \in AgentIds, vr \in ValidationResults :
          handleValidationResult([sourceAgent |-> a, validationResult |-> vr])
    \/ BroadcastToAllAgents("status_update")
    \/ ProcessStart
    \/ ProcessResume

SpecQueue == Init /\ [][NextQueue]_vars

\* The health cycle of the orchestrator over its five subsystems, with the
\* alert system started before, during or after a cycle.
NextSupervisor ==
    \/ startAlertSystem
    \/ stopMonitoring
    \/ CycleStart
    \/ RecoverNext
    \/ RecoverResume
    \/ CycleEnd
    \/ \E id \in Ids : TriggerStore(id)

SpecSupervisor == Init /\ [][NextSupervisor]_vars

\* ================================================================ claims
Stored(id) == \E i \in 1 .. Len(alertHistory) : alertHistory[i] = id
Signature(id) == << alertObjs[id].type, alertObjs[id].agentId >>
Unresolved(id) == Stored(id) /\ alertObjs[id].status # "resolved"
SentChannels(id) ==
    { alertObjs[id].notificationsSent[i].channel :
        i \in 1 .. Len(alertObjs[id].notificationsSent) }
EscFields(alert) ==
    << alert.escalationLevel, alert.escalationScheduled, alert.escalationHistory >>
EscLog(log) == SelectSeq(log, LAMBDA e : e.kind = "escalation")
EscalatingPass(id) == \E p \in Passes : pass[p].pc = "send" /\ pass[p].cur = id

\* The channels every rule under alertRules.critical lists.
CriticalChannels ==
    { c \in BaseChannels :
        \A t \in DOMAIN initializeAlertRules.critical :
            \E i \in 1 .. Len(initializeAlertRules.critical[t].channels) :
                initializeAlertRules.critical[t].channels[i] = c }

\* C1: at most one non-resolved alert exists per (type, agentId) signature:
\* a triggerAlert whose signature matches a non-resolved alert creates no
\* new alert.
C1_OneAlertPerSignature ==
    \A i, j \in Ids :
        (i # j /\ Unresolved(i) /\ Unresolved(j)) => Signature(i) # Signature(j)

\* C2: every triggerAlert of a critical violation, whatever its type, stores
\* the alert with suppressedUntil null and records a delivery attempt on
\* every channel configured for critical alerts.
C2_CriticalStoredAndNotified ==
    \A id \in Ids :
        (alertObjs[id].severity = "critical" /\ trig[id].pc = "done") =>
            /\ Stored(id)
            /\ alertObjs[id].suppressedUntil = None
            /\ CriticalChannels \subseteq SentChannels(id)

\* C3: a critical violation is never suppressed, even when an unexpired
\* suppression rule exists for its (type, agentId) key.
C3_CriticalNeverSuppressed ==
    \A id \in Ids : alertObjs[id].severity = "critical" => ~trig[id].suppressed

\* C4: when a triggerAlert at time T stores an alert whose rule has
\* suppressionTime S > 0, a later triggerAlert of the same signature (here
\* with the same severity too) stores no alert at a time in [T, T+S) and
\* stores one at a time after T+S.
C4_SuppressionWindow ==
    \A i, j \in Ids :
        LET S == getAlertRules(alertObjs[i].violation).suppressionTime
            T == alertObjs[i].timestamp
            t == alertObjs[j].timestamp
        IN  (i < j /\ Stored(i) /\ S > 0 /\ Signature(i) = Signature(j)
               /\ alertObjs[i].violation = alertObjs[j].violation
               /\ trig[j].pc = "done") =>
                /\ (T <= t /\ t < T + S) => ~Stored(j)
                /\ (t > T + S) => Stored(j)

\* C5: once resolveAlert(id) has returned true, no processEscalations pass
\* that starts afterwards sends an escalation notification for id or changes
\* its escalationLevel: apart from the steps of the triggerAlert call that
\* built id, a step that changes the escalation fields of id or sends an
\* escalation notification for it belongs to a pass that was already
\* escalating id when the resolve returned.
C5_NoEscalationAfterResolve ==
    /\ [](\A p \in Passes :
            pass[p].pc = "send" => pass[p].cur \notin pass[p].resolvedAtStart)
    /\ [][\A id \in resolvedOk :
            (/\ trig'[id] = trig[id]
             /\ \/ EscFields(alertObjs'[id]) # EscFields(alertObjs[id])
                \/ EscLog(channelLog'[id]) # EscLog(channelLog[id]))
            => \E p \in Passes : /\ pass[p].pc = "send"
                                 /\ pass[p].cur = id
                                 /\ id \notin pass[p].resolvedAtStart]_vars

\* A pass that started after alert id was resolved, id having been due for
\* escalation before its resolution, is escalating another alert.
C5_Witness ==
    \E p \in Passes : \E id \in pass[p].resolvedAtStart :
        /\ pass[p].pc = "send"
        /\ alertObjs[id].status = "resolved"
        /\ IsSome(alertObjs[id].escalationScheduled)
        /\ Val(alertObjs[id].resolvedAt) >= Val(alertObjs[id].escalationScheduled)
        /\ pass[p].start >= Val(alertObjs[id].escalationScheduled)
        /\ alertObjs[id].escalationHistory = << >>

\* C6: once an alert is resolved, an escalateAlert that was suspended in a
\* channel send does not take effect: no escalation notification is sent
\* any more and escalationLevel, escalationScheduled and escalationHistory
\* are not updated.
C6_ResolveCancelsPromotion ==
    [][\A id \in Ids :
          alertObjs[id].status = "resolved" =>
              /\ EscFields(alertObjs'[id]) = EscFields(alertObjs[id])
              /\ EscLog(channelLog'[id]) = EscLog(channelLog[id])]_vars

\* C7: the first promotion of an alert takes it to level 1 with the level-1
\* policy, each later one to the next level: the k-th promotion is to level k.
C7_PromotionsStartAtLevel1 ==
    \A id \in Ids :
        /\ \A k \in 1 .. Len(alertObjs[id].escalationHistory) :
              alertObjs[id].escalationHistory[k].level = k
        /\ LET log == EscLog(channelLog[id])
           IN  log # << >> => log[1].level = 1

\* C8: escalationLevel never decreases and rises by one at most in a step,
\* and when notifications of level L have been sent, notifications of every
\* level k with 1 <= k < L were sent, all strictly earlier.
C8_EscalationMonotonic ==
    /\ [](\A id \in Ids :
            LET log == EscLog(channelLog[id])
            IN  \A i \in 1 .. Len(log) : \A k \in 1 .. (log[i].level - 1) :
                    /\ \E j \in 1 .. Len(log) : log[j].level = k
                    /\ \A j \in 1 .. Len(log) :
                          log[j].level = k => log[j].at < log[i].at)
    /\ [][\A id \in Ids :
            /\ alertObjs'[id].escalationLevel >= alertObjs[id].escalationLevel
            /\ alertObjs'[id].escalationLevel <= alertObjs[id].escalationLevel + 1]_vars

C10_NoDoubleEscalation ==
    \A id \in Ids :
        /\ \A i, j \in 1 .. Len(alertObjs[id].escalationHistory) :
              i # j => alertObjs[id].escalationHistory[i].level
                         # alertObjs[id].escalationHistory[j].level
        /\ LET log == EscLog(channelLog[id])
           IN  \A i, j \in 1 .. Len(log) :
                   i # j => << log[i].level, log[i].channel >>
                              # << log[j].level, log[j].channel >>

\* C11: every promotion of an alert to level n attempts a notification on
\* each channel of the level-n escalation policy and records the attempt
\* {channel, timestamp, outcome} on alert.notificationsSent.
C11_PromotionNotifiesPolicyChannels ==
    \A id \in Ids :
        \A k \in 1 .. Len(alertObjs[id].escalationHistory) :
            LET h == alertObjs[id].escalationHistory[k]
                chs == Policy(h.level).channels
                log == EscLog(channelLog[id])
                ns == alertObjs[id].notificationsSent
            IN  \A c \in 1 .. Len(chs) :
                    /\ \E i \in 1 .. Len(log) :
                          log[i].level = h.level /\ log[i].channel = chs[c]
                    /\ \E i \in 1 .. Len(ns) :
                          ns[i].channel = chs[c] /\ ns[i].timestamp = h.timestamp

\* C12: in the fan-out of triggerAlert a failed send is recorded on
\* alert.notificationsSent with status failed, every registered channel of
\* the rule is attempted all the same, and triggerAlert runs to its end
\* (escalation scheduled, suppression set).
C12_FailureDoesNotStopFanOut ==
    \A id \in Ids :
        LET rules == getAlertRules(alertObjs[id].violation)
            ns == alertObjs[id].notificationsSent
            log == channelLog[id]
        IN  /\ \A e \in 1 .. Len(log) :
                  (log[e].kind = "alert" /\ log[e].status = "failed") =>
                      \E i \in 1 .. Len(ns) :
                          ns[i].channel = log[e].channel /\ ns[i].status = "failed"
            /\ (Stored(id) /\ trig[id].pc = "done" /\ rules.immediate) =>
                  /\ \A c \in 1 .. Len(rules.channels) :
                        rules.channels[c] \in alertChannels =>
                            \E i \in 1 .. Len(ns) : ns[i].channel = rules.channels[c]
                  /\ rules.escalate => IsSome(alertObjs[id].escalationScheduled)
                  /\ rules.suppressionTime > 0 => IsSome(alertObjs[id].suppressedUntil)

\* A triggerAlert has returned after its first send failed and the two
\* sends after it succeeded.
C12_Witness ==
    \E id \in Ids :
        LET ns == alertObjs[id].notificationsSent
        IN  /\ trig[id].pc = "done"
            /\ Len(ns) = 3
            /\ ns[1].status = "failed"
            /\ ns[2].status = "sent"
            /\ ns[3].status = "sent"
            /\ IsSome(alertObjs[id].escalationScheduled)

\* Position of channel c in the channel list chs.
Pos(chs, c) == CHOOSE i \in 1 .. Len(chs) : chs[i] = c

\* C14: within one alert the channels are attempted in the order of the
\* rule's channel list and each at most once per triggerAlert: the channels
\* recorded on notificationsSent are channels of the rule, in the same
\* relative order as in the rule, none of them twice.
C14_ChannelOrderNoRetry ==
    \A id \in Ids :
        LET chs == getAlertRules(alertObjs[id].violation).channels
            ns == alertObjs[id].notificationsSent
        IN  /\ \A i \in 1 .. Len(ns) :
                  \E c \in 1 .. Len(chs) : chs[c] = ns[i].channel
            /\ \A i, j \in 1 .. Len(ns) :
                  i < j => Pos(chs, ns[i].channel) < Pos(chs, ns[j].channel)

\* The fan-out of a high integrationError alert is over, its email send
\* having failed: one entry per channel of the rule, in the rule's order.
C14_Witness ==
    \E id \in Ids :
        LET chs == getAlertRules(alertObjs[id].violation).channels
            ns == alertObjs[id].notificationsSent
        IN  /\ alertObjs[id].severity = "high"
            /\ Len(ns) = Len(chs)
            /\ Len(chs) = 3
            /\ \A i \in 1 .. Len(ns) : ns[i].channel = chs[i]
            /\ \E i \in 1 .. Len(ns) : ns[i].status = "failed"

\* C15: a suppressed triggerAlert call performs no notification on any
\* channel and leaves activeAlerts, alertHistory and suppressionRules
\* unchanged: its alert is never stored, never notified, owns no suppression
\* rule, and neither of the call's two steps changes the three collections.
C15_SuppressedCallChangesNothing ==
    /\ [](\A id \in Ids :
            trig[id].suppressed =>
                /\ ~Stored(id)
                /\ \A i \in 1 .. Len(activeAlerts) : activeAlerts[i] # id
                /\ channelLog[id] = << >>
                /\ alertObjs[id].notificationsSent = << >>
                /\ \A k \in DOMAIN suppressionRules : suppressionRules[k].alertId # id)
    /\ [][(\/ /\ Len(trig') = Len(trig) + 1
              /\ trig'[Len(trig')].suppressed
           \/ \E id \in Ids : /\ trig[id].suppressed
                              /\ trig[id].pc = "check"
                              /\ trig'[id].pc = "done")
          => /\ UNCHANGED << activeAlerts, alertHistory, suppressionRules >>
             /\ \A id \in Ids : channelLog'[id] = channelLog[id]]_vars

\* A suppressed triggerAlert has returned while the alert that installed
\* the suppression rule is stored and active.
C15_Witness ==
    \E id \in Ids :
        /\ trig[id].suppressed
        /\ trig[id].pc = "done"
        /\ suppressionKey(alertObjs[id]) \in DOMAIN suppressionRules
        /\ LET owner == suppressionRules[suppressionKey(alertObjs[id])].alertId
           IN  /\ owner # id
               /\ Stored(owner)
               /\ \E i \in 1 .. Len(activeAlerts) : activeAlerts[i] = owner

\* The violation's type has a rule under no severity of alertRules.
Unconfigured(violation) ==
    \A sev \in DOMAIN initializeAlertRules :
        violation.type \notin DOMAIN initializeAlertRules[sev]

\* C17: a violation whose type matches no configured alert rule is treated
\* as low severity, an alert is stored for it, and a delivery is attempted
\* on the console channel and on no other channel.
C17_UnknownTypeConsoleOnly ==
    \A id \in Ids :
        (Unconfigured(alertObjs[id].violation) /\ trig[id].pc = "done") =>
            /\ Stored(id)
            /\ alertObjs[id].severity = "low"
            /\ SentChannels(id) = { "console" }

\* C16: suppression is isolated per signature: when a triggerAlert call is
\* suppressed, the alert that installed the suppression rule it met has the
\* same type and the same agentId, whatever the identifiers are.
C16_SuppressionPerSignature ==
    [][(Len(trig') = Len(trig) + 1 /\ trig'[Len(trig')].suppressed) =>
          LET id == Len(trig')
              owner == suppressionRules[suppressionKey(alertObjs'[id])].alertId
          IN  /\ alertObjs[owner].type = alertObjs'[id].type
              /\ alertObjs[owner].agentId = alertObjs'[id].agentId]_vars

\* C20: an alert is escalated only when its rule has escalate = true and only
\* at or after its scheduled time.  An alert of a rule with escalate false
\* keeps escalationLevel 0 and is never scheduled, notified or promoted; no
\* escalation notification or promotion happens before creation time plus
\* the rule's escalationTime; and a notification of, or promotion to, a level
\* above a level L already reached happens no sooner than level L's timeout
\* after the promotion to L.
C20_EscalationOnlyWhenDue ==
    \A id \in Ids :
        LET a == alertObjs[id]
            rules == getAlertRules(a.violation)
            log == EscLog(channelLog[id])
            h == a.escalationHistory
        IN  /\ ~rules.escalate =>
                  /\ a.escalationLevel = 0
                  /\ a.escalationScheduled = None
                  /\ h = << >>
                  /\ log = << >>
            /\ \A i \in 1 .. Len(log) : log[i].at >= a.timestamp + rules.escalationTime
            /\ \A k \in 1 .. Len(h) : h[k].timestamp >= a.timestamp + rules.escalationTime
            /\ \A j \in 1 .. Len(h) :
                  /\ \A k \in 1 .. Len(h) :
                        h[j].level < h[k].level =>
                            h[k].timestamp >= h[j].timestamp + Policy(h[j].level).timeoutMinutes
                  /\ \A i \in 1 .. Len(log) :
                        h[j].level < log[i].level =>
                            log[i].at >= h[j].timestamp + Policy(h[j].level).timeoutMinutes

\* While an advisory itemDesignerLimitation alert stays active at level 0,
\* an alert created no earlier has been promoted twice.
C20_Witness ==
    \E i, j \in Ids :
        /\ alertObjs[i].type = "itemDesignerLimitation"
        /\ Stored(i)
        /\ alertObjs[i].status = "active"
        /\ alertObjs[i].escalationLevel = 0
        /\ alertObjs[i].timestamp <= alertObjs[j].timestamp
        /\ Len(alertObjs[j].escalationHistory) >= 2
        /\ alertObjs[j].escalationLevel = 3

\* C18: every stored alert whose rule is not immediate eventually has a
\* notification delivered on each channel of its rule.
C18_QueuedEventuallyDelivered ==
    \A id \in 1 .. MaxAlerts :
        (/\ id \in Ids
         /\ Stored(id)
         /\ ~getAlertRules(alertObjs[id].violation).immediate)
        ~> (/\ id \in Ids
            /\ \A c \in 1 .. Len(getAlertRules(alertObjs[id].violation).channels) :
               \E i \in 1 .. Len(channelLog[id]) :
                   /\ channelLog[id][i].kind = "alert"
                   /\ channelLog[id][i].channel
                        = getAlertRules(alertObjs[id].violation).channels[c]
                   /\ channelLog[id][i].status = "sent")

\* C13: a send that never completes does not block other deliveries: every
\* registered channel of an alert's rule, other than the one whose send
\* hangs, is eventually attempted once the alert's fan-out has begun, and
\* an active alert that is due for escalation is eventually taken up by a
\* pass (or resolved).
C13_HungSendBlocksNothing ==
    /\ \A id \in 1 .. MaxAlerts :
          (id \in Ids /\ trig[id].pc \in { "send", "hung" })
          ~> (/\ id \in Ids
              /\ LET chs == getAlertRules(alertObjs[id].violation).channels
                 IN  \A c \in 1 .. Len(chs) :
                        (/\ chs[c] \in alertChannels
                         /\ ~(trig[id].pc = "hung" /\ trig[id].idx = c))
                        => \E i \in 1 .. Len(channelLog[id]) :
                              /\ channelLog[id][i].kind = "alert"
                              /\ channelLog[id][i].channel = chs[c])
    /\ \A id \in 1 .. MaxAlerts :
          (id \in Ids /\ Due(alertObjs[id], now))
          ~> (/\ id \in Ids
              /\ \/ alertObjs[id].status # "active"
                 \/ alertObjs[id].escalationHistory # << >>
                 \/ \E p \in Passes : pass[p].pc \in { "send", "hung" } /\ pass[p].cur = id)

\* C19: when validateSolution has found a catalog item with more than 100
\* variables for an agent, an immediate_halt command has been sent to that
\* agent and the alert raised for the violation is stored and notified on
\* every registered channel of the critical variableCountExceeded rule.
C19_HaltAndNotifyOnVariableCount ==
    \A k \in 1 .. Len(validation) :
        validation[k].pc = "done" =>
            LET agentId == validation[k].agentId
                id == validation[k].alertId
                chs == initializeAlertRules.critical.variableCountExceeded.channels
            IN  /\ MapHas(messageQueue, agentId)
                /\ \E i \in 1 .. Len(MapGet(messageQueue, agentId)) :
                      MapGet(messageQueue, agentId)[i].type = "immediate_halt"
                /\ Stored(id)
                /\ \A c \in 1 .. Len(chs) :
                      chs[c] \in alertChannels => chs[c] \in SentChannels(id)

\* C23: once resolveAlert(id) has returned true the alert has status resolved,
\* has resolvedAt set and is no key of activeAlerts, in every later state,
\* whatever operations follow.
C23_ResolvedIsTerminal ==
    \A id \in resolvedOk :
        /\ alertObjs[id].status = "resolved"
        /\ IsSome(alertObjs[id].resolvedAt)
        /\ \A i \in 1 .. Len(activeAlerts) : activeAlerts[i] # id

\* An alert was resolved and a later triggerAlert call has run to its end.
C23_Witness ==
    \E id \in resolvedOk :
        \E j \in Ids : j > id /\ trig[j].pc = "done" /\ Stored(j)

\* C21: a triggerAlert call whose violation has no type or no severity
\* creates no alert: its alert enters neither activeAlerts nor alertHistory.
C21_MalformedRejected ==
    \A id \in Ids :
        Malformed(alertObjs[id].violation) =>
            /\ ~Stored(id)
            /\ \A i \in 1 .. Len(activeAlerts) : activeAlerts[i] # id

\* C22: a resolveAlert call for an id that is no key of activeAlerts changes
\* nothing and sends nothing, and a resolveAlert call returns true only for
\* an alert for which no earlier call has returned true.
C22_ResolvedAtMostOnce ==
    [][\A r \in OverlapResolvers :
          /\ (res[r].pc = "send" /\ res'[r].pc = "idle") =>
                 res[r].id \notin resolvedOk
          /\ (res[r].pc = "idle" /\ res'[r].pc = "send") =>
                 alertObjs[res'[r].id].status = "active"]_vars

\* The fields of an agent record that registration fixes.
AgentFields(agent) ==
    [type |-> agent.type, capabilities |-> agent.capabilities,
     status |-> agent.status, validationScore |-> agent.validationScore,
     violationCount |-> agent.violationCount]

\* C24: a registerAgent call with an agentInfo that was registered before
\* leaves exactly one agent record for its id, with the type, capabilities,
\* status, validationScore and violationCount a single registration gives.
C24_RegisterIdempotent ==
    [][(/\ Len(registrations') = Len(registrations) + 1
        /\ Includes(registrations, registrations'[Len(registrations')])) =>
          LET agentInfo == registrations'[Len(registrations')]
          IN  /\ Cardinality({ i \in 1 .. Len(activeAgents') :
                                 activeAgents'[i].key = agentInfo.id }) = 1
              /\ AgentFields(MapGet(activeAgents', agentInfo.id))
                     = AgentFields(NewAgent(agentInfo))]_vars

\* The same agentInfo was registered twice, the second time after a
\* validation result with violations for that agent id had been handled.
C24_Witness ==
    /\ Len(registrations) = 2
    /\ registrations[1] = registrations[2]
    /\ Len(plans) > 0
    /\ plans[1].agentId = registrations[1].id
    /\ MapGet(activeAgents, registrations[1].id).validationScore = 100

\* suitability = 10 x |capabilities intersect required| + 0.1 x
\* validationScore - 2 x violationCount, in tenths.
Suitability(agent, task) ==
    LET Elements(array) == { array[i] : i \in 1 .. Len(array) }
    IN  100 * Cardinality(Elements(agent.capabilities)
                            \cap Elements(task.requiredCapabilities))
        + agent.validationScore - 20 * agent.violationCount

\* The agent the rule of C25 names for a task: "null" when no agent with
\* status active has a required capability, else the earliest-registered of
\* the eligible agents with the highest suitability.
MostSuitable(agents, task) ==
    LET eligible == { i \in 1 .. Len(agents) :
                        /\ agents[i].value.status = "active"
                        /\ \E c \in 1 .. Len(agents[i].value.capabilities) :
                              Includes(task.requiredCapabilities,
                                       agents[i].value.capabilities[c]) }
        top == { i \in eligible :
                   \A j \in eligible : Suitability(agents[j].value, task)
                                          <= Suitability(agents[i].value, task) }
    IN  IF eligible = {} THEN "null"
        ELSE agents[CHOOSE i \in top : \A j \in top : i <= j].key

\* C25: findBestAgentForTask returns the eligible agent with the highest
\* suitability, the earliest-registered one among equals, and null when no
\* agent is eligible.
C25_BestAgentBySuitability ==
    [][(found' # found) =>
          Val(found').agentId = MostSuitable(activeAgents, Val(found').task)]_vars

\* The correction tasks the coordinator still holds: the plan of
\* coordinateViolationResponse is a local of the call, and of the fields of
\* the coordinator only messageQueue could carry a task, in a message.
HeldTasks ==
    UNION { { messageQueue[i].value[k].task :
                k \in { j \in 1 .. Len(messageQueue[i].value) :
                          "task" \in DOMAIN messageQueue[i].value[j] } } :
            i \in 1 .. Len(messageQueue) }

\* C26: a correction task for which findBestAgentForTask found no agent is
\* not dropped: the coordinator still holds it once
\* coordinateViolationResponse has returned, so that a later cycle can hand
\* it to an agent that registers afterwards.
C26_UnassignedTasksKept ==
    \A i \in 1 .. Len(plans) :
        plans[i].assignedAgent = "null" => plans[i].task \in HeldTasks

\* The agent has not been seen for longer than HeartbeatThreshold minutes.
\* The source names no threshold and reads lastSeen nowhere; any value gives
\* the same result.
Silent(agent) == now - agent.lastSeen > HeartbeatThreshold

\* C27: a health check that finds an agent silent for longer than the
\* heartbeat threshold marks it stale: its status is no longer active when
\* checkAgentHealth has run.
C27_SilentAgentMarkedStale ==
    [][checkAgentHealth =>
          \A i \in 1 .. Len(activeAgents) :
              Silent(activeAgents[i].value) =>
                  activeAgents'[i].value.status # "active"]_vars

\* C28: when a message that is not urgent is delivered to an agent, every
\* urgent message in that agent's queue has been delivered to it before.
C28_UrgentBeforeNormal ==
    [][\A k \in Len(delivered) + 1 .. Len(delivered') :
          LET agentId == delivered'[k].agentId
          IN  (~Urgent(delivered'[k].message) /\ MapHas(messageQueue, agentId)) =>
                 \A i \in 1 .. Len(MapGet(messageQueue, agentId)) :
                     Urgent(MapGet(messageQueue, agentId)[i]) =>
                        \E j \in 1 .. k :
                            /\ delivered'[j].agentId = agentId
                            /\ delivered'[j].message = MapGet(messageQueue, agentId)[i]]_vars

\* Number of times the message object with identity id is in the queue q.
Occurrences(q, id) == Cardinality({ i \in 1 .. Len(q) : q[i].id = id })

QueueOf(mq, agentId) == IF MapHas(mq, agentId) THEN MapGet(mq, agentId) ELSE << >>

\* C29: a broadcast puts its message once into the queue of every agent that
\* is registered, whatever its capabilities, type and status, and into the
\* queue of no agent that is not registered.  The messages made by a step
\* are those numbered above msgCount; the urgent ones among them are the
\* commands for one agent, the others are broadcasts.
C29_BroadcastReachesEveryAgent ==
    [][\A id \in msgCount + 1 .. msgCount' :
          (\A a \in AgentIds :
              \A i \in 1 .. Len(QueueOf(messageQueue', a)) :
                  QueueOf(messageQueue', a)[i].id = id =>
                      ~Urgent(QueueOf(messageQueue', a)[i]))
          => \A a \in AgentIds :
                Occurrences(QueueOf(messageQueue', a), id)
                    = IF MapHas(activeAgents', a) THEN 1 ELSE 0]_vars

\* A broadcast was made with one agent registered and the other not, and
\* the registered agent's queue was not empty before.
C29_Witness ==
    /\ Len(activeAgents) = 1
    /\ MapHas(messageQueue, activeAgents[1].key)
    /\ \E i \in 1 .. Len(MapGet(messageQueue, activeAgents[1].key)) :
          /\ i > 1
          /\ MapGet(messageQueue, activeAgents[1].key)[i].type = "status_update"

\* The system_failure alerts triggered for a subsystem.
FailureAlerts(name) ==
    { id \in Ids : /\ alertObjs[id].type = "system_failure"
                   /\ alertObjs[id].severity = "critical"
                   /\ alertObjs[id].violation.system = name }

\* A subsystem is restarted at most once per health cycle, is never
\* restarted again after a restart that failed, and has at most one
\* system_failure alert.
RestartsBounded ==
    /\ \A i, j \in 1 .. Len(restartLog) :
          (i < j /\ restartLog[i].system = restartLog[j].system) =>
              /\ restartLog[i].cycle # restartLog[j].cycle
              /\ ~restartLog[i].failed
    /\ \A i \in 1 .. Len(SystemNames) :
          Cardinality(FailureAlerts(SystemNames[i])) <= 1

ReportedResults ==
    ScoreResults \cup { [compliant |-> TRUE, score |-> 0, violations |-> << >>] }

\* Registrations and validation results, the lowest score included.
NextScore ==
    \/ \E agentInfo \in QueueInfos : registerAgent(agentInfo)
    \/ \E a \in AgentIds, vr \in ReportedResults :
          handleValidationResult([sourceAgent |-> a, validationResult |-> vr])

SpecScore == Init /\ [][NextScore]_vars

\* C38: after handleValidationResult for a registered agent, the agent's
\* validationScore is the score the validation result reports, the score 0
\* included, and its violationCount is the number of reported violations.
C38_ScoreAsReported ==
    [][\A a \in AgentIds, vr \in ReportedResults :
          ( /\ MapHas(activeAgents, a)
            /\ handleValidationResult([sourceAgent |-> a, validationResult |-> vr]) )
          => /\ MapGet(activeAgents', a).validationScore = vr.score
             /\ MapGet(activeAgents', a).violationCount = Len(vr.violations)]_vars

\* ---------------------------------------------------------------------
\* The alerts counted as active

\* C39: in every reachable state, the states inside an in-flight resolveAlert
\* included, every alert in activeAlerts is in alertHistory and has status
\* active: a resolved alert is never visible in activeAlerts.
C39_ActiveAlertsAreActive ==
    \A i \in 1 .. Len(activeAlerts) :
        /\ Stored(activeAlerts[i])
        /\ alertObjs[activeAlerts[i]].status = "active"

\* ---------------------------------------------------------------------
\* The resolution hook

\* C37: whenever resolveAlert succeeds for an alert that carries an agentId,
\* the resolution hook of the orchestrator runs and
\* statistics.violationsResolved increases by one.
C37_ResolutionCounted ==
    [][\A r \in OverlapResolvers :
          ( /\ ResolveFinish(r)
            /\ alertObjs[res[r].id].agentId # "" )
          => statistics'.violationsResolved = statistics.violationsResolved + 1]_vars

\* ---------------------------------------------------------------------
\* Suppression of concurrent calls

\* Two triggerAlert calls that are in flight together.
Concurrent(i, j) == trig[i].pc # "done" /\ trig[j].pc # "done"

\* C32: when two triggerAlert calls with the same (type, agentId) and a rule
\* with suppressionTime > 0 run concurrently, at most one of them stores an
\* alert in activeAlerts and alertHistory.
C32_ConcurrentCallsStoreOnce ==
    \A i, j \in Ids :
        ( /\ i < j
          /\ Concurrent(i, j)
          /\ Signature(i) = Signature(j)
          /\ getAlertRules(alertObjs[i].violation).suppressionTime > 0
          /\ getAlertRules(alertObjs[j].violation).suppressionTime > 0 )
        => ~(Stored(i) /\ Stored(j))

\* ---------------------------------------------------------------------
\* The response to a list of violations

\* Non-compliant validation results: one whose first critical violation has
\* a rule that escalates, and one whose critical violation has a rule that
\* does not.
ResponseResults ==
    { [compliant |-> FALSE, score |-> 41,
       violations |-> << [type |-> "securityViolation", severity |-> "critical"],
                         [type |-> "variableCountExceeded", severity |-> "critical"] >>],
      [compliant |-> FALSE, score |-> 41,
       violations |-> << [type |-> "invalidUserCriteria", severity |-> "critical"],
                         [type |-> "performanceConcern", severity |-> "high"] >>] }

\* Registrations and non-compliant validation results.
NextResponse ==
    \/ \E agentInfo \in QueueInfos : registerAgent(agentInfo)
    \/ \E a \in AgentIds, vr \in ResponseResults :
          handleValidationResult([sourceAgent |-> a, validationResult |-> vr])

SpecResponse == Init /\ [][NextResponse]_vars

\* The critical violations of a list that have a coordination rule.
RuledCritical(violations) ==
    SelectSeq(violations,
              LAMBDA v : v.severity = "critical" /\ v.type \in DOMAIN criticalViolationRules)

\* The messages made for a list of violations when each critical one is
\* handled: the command of its rule and, when the rule says notifyAll, one
\* critical_violation_alert.
RECURSIVE MessagesFor(_)
MessagesFor(violations) ==
    IF violations = << >> THEN 0
    ELSE (IF criticalViolationRules[Head(violations).type].notifyAll THEN 2 ELSE 1)
         + MessagesFor(Tail(violations))

\* C33: coordinateViolationResponse handles every critical violation of its
\* list and then makes a correction plan with one task per violation, also
\* when the handling of one violation fails.
C33_AllHandledAndPlanned ==
    [][\A a \in AgentIds, vr \in ResponseResults :
          handleValidationResult([sourceAgent |-> a, validationResult |-> vr])
          => /\ msgCount' = msgCount + MessagesFor(RuledCritical(vr.violations))
             /\ Len(plans') = Len(plans) + Len(vr.violations)
             /\ \A i \in 1 .. Len(vr.violations) :
                   plans'[Len(plans) + i].task.violation = vr.violations[i]]_vars

\* ---------------------------------------------------------------------
\* Delivery of the queued messages

\* The deliveries of message id to an agent.
Deliveries(dl, agentId, id) ==
    Cardinality({ i \in 1 .. Len(dl) : dl[i].agentId = agentId /\ dl[i].message.id = id })

\* C31: every message enqueued for an agent is delivered exactly once, the
\* messages enqueued while processMessageQueue is suspended in a delivery
\* for that agent included: no message is delivered twice, and a message
\* that leaves the agent's queue has been delivered.
C31_DeliveredExactlyOnce ==
    /\ [](\A a \in AgentIds, id \in 1 .. msgCount : Deliveries(delivered, a, id) <= 1)
    /\ [][\A a \in AgentIds, id \in 1 .. msgCount :
             ( /\ Occurrences(QueueOf(messageQueue, a), id) > 0
               /\ Occurrences(QueueOf(messageQueue', a), id) = 0 )
             => Deliveries(delivered', a, id) = 1]_vars

\* ---------------------------------------------------------------------
\* start() and shutdown() of the orchestrator

\* The start methods startSystems awaits, in call order (lines 186-208); the
\* validation tools have no start method and are set healthy after the
\* coordinator.
awaitedStarts == << "alerts", "coordinator", "monitor", "validator" >>

\* The first statement of a start method sets the active flag of its
\* subsystem.
StartedFlags(flags, name) ==
    IF name \in DOMAIN flags THEN [flags EXCEPT ![name] = FlagAfterStart(name)]
    ELSE flags

\* The systemHealth.set calls that follow a start method that has returned.
HealthAfter(health, name) ==
    IF name = "coordinator"
    THEN MapSet(MapSet(health, "coordinator", "healthy"), "tools", "healthy")
    ELSE MapSet(health, name, "healthy")

StartedAfter(started, name) ==
    IF name = "coordinator" THEN started \o << "coordinator", "tools" >>
    ELSE Append(started, name)

\* Lines 139-147 and 182-186: start() returns at once when isRunning is set;
\* otherwise it sets isRunning and runs into alerts.startAlertSystem, which
\* sets isActive and registers the channels (lines 1090-1107).
start ==
    /\ boot.pc = "idle"
    /\ IF isRunning
       THEN /\ boot' = [boot EXCEPT !.startResult = "already_running"]
            /\ UNCHANGED << isRunning, isActive, alertChannels >>
       ELSE /\ isRunning' = TRUE
            /\ isActive' = TRUE
            /\ alertChannels' = BaseChannels
            /\ boot' = [boot EXCEPT !.pc = "starting", !.pos = 1, !.started = << >>,
                                    !.startResult = "none", !.shutdownResult = "none"]
    /\ UNCHANGED << systemFlags, systemHealth, restartLog, cycle, statistics,
                    coordVars, validation, now, alertObjs, alertHistory,
                    activeAlerts, suppressionRules, trig, pass, res, channelLog,
                    resolvedOk, failures, noPolicyWarned >>

\* The start method start() is waiting for has settled.  When it threw, the
\* catch of lines 171-175 resets isRunning and start() rejects.  When it
\* returned, the subsystem is set healthy and the next start method is
\* called; after the last one the timers of lines 152-158 are installed and
\* sendStartupNotification triggers the system_startup alert (654-668), and
\* start() returns when that triggerAlert has.
StartResume ==
    /\ boot.pc \in { "starting", "notify" }
    /\ IF boot.pc = "notify"
       THEN /\ trig[boot.alertId].pc = "done"
            /\ boot' = [boot EXCEPT !.pc = "idle", !.pos = 0, !.alertId = 0,
                                    !.startResult = "resolved"]
            /\ UNCHANGED << isRunning, systemFlags, systemHealth, alertObjs, trig,
                            channelLog >>
       ELSE LET name == awaitedStarts[boot.pos]
            IN  IF StartThrows(name)
                THEN /\ isRunning' = FALSE
                     /\ boot' = [boot EXCEPT !.pc = "idle", !.pos = 0,
                                             !.startResult = "rejected"]
                     /\ UNCHANGED << systemFlags, systemHealth, alertObjs, trig,
                                     channelLog >>
                ELSE /\ systemHealth' = HealthAfter(systemHealth, name)
                     /\ UNCHANGED isRunning
                     /\ IF boot.pos < Len(awaitedStarts)
                        THEN /\ systemFlags' =
                                   StartedFlags(systemFlags, awaitedStarts[boot.pos + 1])
                             /\ boot' = [boot EXCEPT
                                           !.pos = @ + 1,
                                           !.started = StartedAfter(@, name)]
                             /\ UNCHANGED << alertObjs, trig, channelLog >>
                        ELSE /\ TriggerStart([type |-> "system_startup",
                                              severity |-> "low"], "")
                             /\ boot' = [boot EXCEPT
                                           !.pc = "notify",
                                           !.alertId = Len(alertObjs) + 1,
                                           !.started = StartedAfter(@, name)]
                             /\ UNCHANGED systemFlags
    /\ UNCHANGED << restartLog, cycle, statistics, coordVars, validation, now,
                    isActive, alertChannels, alertHistory, activeAlerts,
                    suppressionRules, pass, res, resolvedOk, failures,
                    noPolicyWarned >>

\* The stop method shutdown() finds on a subsystem (lines 717-721): only
\* ESCRealTimeMonitor has one, stopMonitoring; no subsystem defines stop.
HasStop(name) == name = "monitor"

\* Lines 690-711: shutdown() returns at once when isRunning is not set;
\* otherwise it resets isRunning and triggers the system_shutdown alert.
shutdown ==
    /\ boot.down = "idle"
    /\ IF ~isRunning
       THEN /\ boot' = [boot EXCEPT !.shutdownResult = "returned"]
            /\ UNCHANGED << isRunning, alertObjs, trig, channelLog, coordVars, now,
                            isActive, alertChannels, alertHistory, activeAlerts,
                            suppressionRules, pass, res, resolvedOk, failures,
                            noPolicyWarned >>
       ELSE /\ isRunning' = FALSE
            /\ TriggerStart([type |-> "system_shutdown", severity |-> "low"], "")
            /\ boot' = [boot EXCEPT !.down = "alerting",
                                    !.downAlertId = Len(alertObjs) + 1,
                                    !.shutdownResult = "none"]
    /\ UNCHANGED << systemFlags, systemHealth, restartLog, cycle, statistics,
                    validation >>

\* Lines 713-730: the triggerAlert call of shutdown() has returned; the
\* subsystems are visited in reverse order of this.systems and the stop
\* method of each is called when it has one.
ShutdownResume ==
    /\ boot.down = "alerting"
    /\ trig[boot.downAlertId].pc = "done"
    /\ systemFlags' = [n \in DOMAIN systemFlags |->
                          IF HasStop(n) THEN FALSE ELSE systemFlags[n]]
    /\ isActive' = IF HasStop("alerts") THEN FALSE ELSE isActive
    /\ boot' = [boot EXCEPT !.down = "idle", !.downAlertId = 0,
                            !.shutdownResult = "returned"]
    /\ UNCHANGED << isRunning, systemHealth, restartLog, cycle, statistics,
                    coordVars, validation, now, alertChannels, alertObjs,
                    alertHistory, activeAlerts, suppressionRules, trig, pass, res,
                    channelLog, resolvedOk, failures, noPolicyWarned >>

\* The orchestrator as its owner drives it: start() and shutdown() calls,
\* also while the other is in flight, the triggerAlert calls they make, and
\* the alerts the started alert system is asked for.
NextLifecycle ==
    \/ start
    \/ StartResume
    \/ shutdown
    \/ ShutdownResume
    \/ \E v \in EscViolations, a \in ContextAgents :
          TriggerStart(v, a) /\ UNCHANGED << validation, orchVars >>
    \/ \E id \in Ids : TriggerStore(id)
    \/ \E id \in Ids, o \in { "sent", "failed" } : TriggerSendDone(id, o)

SpecLifecycle == Init /\ [][NextLifecycle]_vars

\* A start() call settles in this step.
StartSettles == boot.pc # "idle" /\ boot'.pc = "idle"

\* A shutdown() call returns in this step.
ShutdownReturns == boot.shutdownResult # "returned" /\ boot'.shutdownResult = "returned"

\* No subsystem has its active flag set.
NoneActive(alertsActive, flags) ==
    ~alertsActive /\ \A n \in DOMAIN flags : ~flags[n]

\* C34: start() completes successfully: the five subsystems are started in
\* the order alerts, coordinator, tools, monitor, validator, each is marked
\* healthy in systemHealth, and isRunning is true when start() returns.
C34_StartCompletes ==
    [][StartSettles =>
          /\ boot'.startResult = "resolved"
          /\ boot'.started = << "alerts", "coordinator", "tools", "monitor", "validator" >>
          /\ \A i \in 1 .. Len(SystemNames) :
                /\ MapHas(systemHealth', SystemNames[i])
                /\ MapGet(systemHealth', SystemNames[i]) = "healthy"
          /\ isRunning']_vars

\* C35: when a subsystem fails to start, start() rejects with isRunning
\* reset to false and leaves no subsystem active.
C35_FailedStartLeavesNothingActive ==
    [][(StartSettles /\ boot'.startResult = "rejected") =>
          /\ ~isRunning'
          /\ NoneActive(isActive', systemFlags')]_vars

\* C36: after shutdown() returns, isRunning is false and every subsystem is
\* inactive: alerts.isActive, coordinator.isActive, validator.monitoringActive
\* and monitor.isMonitoring are all false.
C36_ShutdownStopsEverything ==
    [][ShutdownReturns =>
          /\ ~isRunning'
          /\ NoneActive(isActive', systemFlags')]_vars
====
